---------------------------- MODULE Spec2Model ----------------------------
(***************************************************************************)
(* Verification model of the reinsurance dashboard's data pipeline:        *)
(*   - the period resolver (normalizeTimeData, the yearly grouping and     *)
(*     the commitment-date parser),                                        *)
(*   - the cached CSV load of the API routes (loadCSVData/loadDimensions), *)
(*   - the aggregation / ratio engine.                                     *)
(*                                                                         *)
(* Text is modelled as a sequence of one-character strings so that trim,   *)
(* toUpperCase, parseInt and the regular-expression tests are computed as   *)
(* the code computes them.  A commitment date is modelled by its syntactic *)
(* shape (ISO, a/b/y, "15 Aug 2020", junk) and its numeric parts.          *)
(***************************************************************************)
EXTENDS Integers, Sequences, FiniteSets, TLC

VARIABLES
    \* ---- period resolver ----
    rec,            \* the record handed to the resolver
    tzWest,         \* TRUE when the process time zone is west of UTC
    qres,           \* result of normalizeTimeData(rec)   (quarterly route)
    yres,           \* year bucket chosen by the yearly route's grouping
    rdone,          \* which of the two resolutions have run
    \* ---- cached load ----
    route,          \* the route module whose cache this behaviour follows
    file,           \* the backing CSV file: exists, readable, mtime, version
    csvDataCache,   \* module-level cache (null or a parsed value)
    lastModified,   \* module-level timestamp stored with the cache
    req,            \* per in-flight request: position and locals
    resp,           \* the response answered by the step just taken, if any
    hist,           \* history: reads of the file since it last changed
    \* ---- aggregation ----
    dataset,        \* the records handed to an aggregation
    view,           \* the result of the aggregation that ran last
    \* ---- filter state of the client overview page ----
    filters,        \* facet -> the selected values (React state `filters`)
    \* ---- numeric cell parsing ----
    cell,           \* the text of one numeric CSV cell
    parsed          \* the number a parser stored for the cell, if one ran

resolverVars == <<rec, tzWest, qres, yres, rdone>>
loadVars     == <<route, file, csvDataCache, lastModified, req, resp, hist>>
aggVars      == <<dataset, view>>
pageVars     == <<filters>>
parseVars    == <<cell, parsed>>
vars         == <<rec, tzWest, qres, yres, rdone,
                  route, file, csvDataCache, lastModified, req, resp, hist,
                  dataset, view, filters, cell, parsed>>

(***************************************************************************)
(* Text helpers (JavaScript String semantics on the modelled alphabet)     *)
(***************************************************************************)
EmptyStr == << >>

IsSpace(c) == c \in {" ", "\t"}

DigitVal ==
    [c \in {"0","1","2","3","4","5","6","7","8","9"} |->
        CASE c = "0" -> 0 [] c = "1" -> 1 [] c = "2" -> 2 [] c = "3" -> 3
          [] c = "4" -> 4 [] c = "5" -> 5 [] c = "6" -> 6 [] c = "7" -> 7
          [] c = "8" -> 8 [] c = "9" -> 9]

IsDigit(c) == c \in DOMAIN DigitVal

UpperOf ==
    [a |-> "A", b |-> "B", c |-> "C", d |-> "D", e |-> "E", f |-> "F",
     g |-> "G", h |-> "H", i |-> "I", j |-> "J", k |-> "K", l |-> "L",
     m |-> "M", n |-> "N", o |-> "O", p |-> "P", q |-> "Q", r |-> "R",
     s |-> "S", t |-> "T", u |-> "U", v |-> "V", w |-> "W", x |-> "X",
     y |-> "Y", z |-> "Z"]

\* String.prototype.toUpperCase
toUpperCase(s) ==
    [i \in 1..Len(s) |-> IF s[i] \in DOMAIN UpperOf THEN UpperOf[s[i]] ELSE s[i]]

\* String.prototype.toLowerCase
toLowerCase(s) ==
    [i \in 1..Len(s) |->
        IF \E c \in DOMAIN UpperOf : UpperOf[c] = s[i]
        THEN CHOOSE c \in DOMAIN UpperOf : UpperOf[c] = s[i]
        ELSE s[i]]

RECURSIVE TrimLeft(_)
TrimLeft(s) ==
    IF s # EmptyStr /\ IsSpace(Head(s)) THEN TrimLeft(Tail(s)) ELSE s

RECURSIVE TrimRight(_)
TrimRight(s) ==
    IF s # EmptyStr /\ IsSpace(s[Len(s)])
    THEN TrimRight(SubSeq(s, 1, Len(s) - 1)) ELSE s

\* String.prototype.trim
trim(s) == TrimRight(TrimLeft(s))

\* Number of leading decimal digits of s
RECURSIVE DigitPrefixLen(_)
DigitPrefixLen(s) ==
    IF s # EmptyStr /\ IsDigit(Head(s)) THEN 1 + DigitPrefixLen(Tail(s)) ELSE 0

RECURSIVE DigitsValue(_)
DigitsValue(s) ==
    IF s = EmptyStr THEN 0
    ELSE 10 * DigitsValue(SubSeq(s, 1, Len(s) - 1)) + DigitVal[s[Len(s)]]

\* parseInt(s): leading white space skipped, optional sign, longest digit
\* prefix; NaN when there is none.  Result: [nan |-> BOOLEAN, v |-> Int].
parseInt(s) ==
    LET t    == TrimLeft(s)
        neg  == t # EmptyStr /\ Head(t) = "-"
        sgn  == t # EmptyStr /\ Head(t) \in {"-", "+"}
        body == IF sgn THEN Tail(t) ELSE t
        n    == DigitPrefixLen(body)
        v    == DigitsValue(SubSeq(body, 1, n))
    IN  IF n = 0 THEN [nan |-> TRUE, v |-> 0]
        ELSE [nan |-> FALSE, v |-> IF neg THEN 0 - v ELSE v]

\* /^[1-4]$/.test(s)
IsBareDigit14(s) == Len(s) = 1 /\ s[1] \in {"1", "2", "3", "4"}

\* /^Q[1-4]$/ with the digit class widened to any digit
IsQ14_Mut(s) == Len(s) = 2 /\ s[1] = "Q" /\ IsDigit(s[2])

\* /^Q[1-4]$/.test(s)
IsQ14(s) == Len(s) = 2 /\ s[1] = "Q" /\ s[2] \in {"1", "2", "3", "4"}


(***************************************************************************)
(* Month names and the month table of normalizeTimeData                    *)
(***************************************************************************)
JAN == <<"J","A","N">>
FEB == <<"F","E","B">>
MAR == <<"M","A","R">>
APR == <<"A","P","R">>
MAY == <<"M","A","Y">>
JUN == <<"J","U","N">>
JUL == <<"J","U","L">>
AUG == <<"A","U","G">>
SEP == <<"S","E","P">>
OCT == <<"O","C","T">>
NOV == <<"N","O","V">>
DEC == <<"D","E","C">>

\* Mutant of monthMap: the table holds the 3-letter codes only.
monthMap_Mut(month) == month

\* monthMap[month] || month   (keys are upper-case; there is no entry for
\* four-letter abbreviations such as SEPT)
monthMap(month) ==
    CASE month \in {JAN, <<"J","A","N","U","A","R","Y">>}             -> JAN
      [] month \in {FEB, <<"F","E","B","R","U","A","R","Y">>}         -> FEB
      [] month \in {MAR, <<"M","A","R","C","H">>}                     -> MAR
      [] month \in {APR, <<"A","P","R","I","L">>}                     -> APR
      [] month = MAY                                                  -> MAY
      [] month \in {JUN, <<"J","U","N","E">>}                         -> JUN
      [] month \in {JUL, <<"J","U","L","Y">>}                         -> JUL
      [] month \in {AUG, <<"A","U","G","U","S","T">>}                 -> AUG
      [] month \in {SEP, <<"S","E","P","T","E","M","B","E","R">>}     -> SEP
      [] month \in {OCT, <<"O","C","T","O","B","E","R">>}             -> OCT
      [] month \in {NOV, <<"N","O","V","E","M","B","E","R">>}         -> NOV
      [] month \in {DEC, <<"D","E","C","E","M","B","E","R">>}         -> DEC
      [] OTHER                                                        -> month

Q1 == <<"Q","1">>
Q2 == <<"Q","2">>
Q3 == <<"Q","3">>
Q4 == <<"Q","4">>
QNaN == <<"Q","N","a","N">>

\* The if / else-if chain deriving the quarter from the normalised month;
\* `quarter` is left as it was when no branch applies.
quarterFromMonth(normalizedMonth, quarter) ==
    IF normalizedMonth \in {JAN, FEB, MAR} THEN Q1
    ELSE IF normalizedMonth \in {APR, MAY, JUN} THEN Q2
    ELSE IF normalizedMonth \in {JUL, AUG, SEP} THEN Q3
    ELSE IF normalizedMonth \in {OCT, NOV, DEC} THEN Q4
    ELSE quarter

(***************************************************************************)
(* Commitment dates and the JavaScript Date                                *)
(*   fmt = "empty" : ""                                                    *)
(*   fmt = "iso"   : "YYYY-MM-DD"   p1 = month, p2 = day                   *)
(*   fmt = "slash" : "a/b/YYYY"     p1 = a,     p2 = b                     *)
(*   fmt = "text"  : "15 Aug 2020"  p1 = day,   p2 = month                 *)
(*   fmt = "junk"  : text no parser accepts                                *)
(* A Date is [valid, y, m] with m the local calendar month 1..12.          *)
(***************************************************************************)
InvalidDate == [valid |-> FALSE, y |-> 0, m |-> 0]

MkDate(y, m) == [valid |-> TRUE, y |-> y, m |-> m]

\* new Date(Y, monthIndex, day) for a day that exists in every month: the
\* month index overflows into the following years.
DateFromParts(y, month, day) ==
    LET idx == month - 1
    IN  MkDate(y + (idx \div 12), (idx % 12) + 1)

\* new Date(string) / Date.parse(string) as V8 evaluates it:
\*  - a date-only ISO string is UTC midnight, so west of UTC the local
\*    calendar date is the previous day;
\*  - a/b/y is read month-first and is invalid when a is no month;
\*  - "15 Aug 2020" is local time.
NewDate(c, west) ==
    CASE c.fmt = "iso" ->
            IF c.p1 \notin 1..12 \/ c.p2 \notin 1..28 THEN InvalidDate
            ELSE IF west /\ c.p2 = 1
                 THEN IF c.p1 = 1 THEN MkDate(c.y - 1, 12) ELSE MkDate(c.y, c.p1 - 1)
                 ELSE MkDate(c.y, c.p1)
      [] c.fmt = "slash" ->
            IF c.p1 \in 1..12 /\ c.p2 \in 1..28 THEN MkDate(c.y, c.p1)
            ELSE InvalidDate
      [] c.fmt = "text" -> MkDate(c.y, c.p2)
      [] OTHER -> InvalidDate

\* parseComDateToJSDate: strict ISO (local midnight), then a/b/y with the
\* day-first preference and the swap when only b can be the day, then
\* Date.parse.  null is InvalidDate.
parseComDateToJSDate(raw) ==
    CASE raw.fmt = "empty" -> InvalidDate
      [] raw.fmt = "iso" ->
            IF raw.p1 \in 1..12 /\ raw.p2 \in 1..28 THEN MkDate(raw.y, raw.p1)
            ELSE InvalidDate
      [] raw.fmt = "slash" ->
            LET A == raw.p1
                B == raw.p2
                swap  == A <= 12 /\ B > 12
                day   == IF swap THEN B ELSE A
                month == IF swap THEN A ELSE B
            IN  DateFromParts(raw.y, month, day)
      [] OTHER -> NewDate(raw, FALSE)

(***************************************************************************)
(* The period resolver                                                     *)
(* An optional number (number | undefined) is [def, v].                    *)
(***************************************************************************)
Undefined == [def |-> FALSE, v |-> 0]

Num(n) == [def |-> TRUE, v |-> n]

\* !year  for a number | undefined
Falsy(year) == ~year.def \/ year.v = 0

Null == [isNull |-> TRUE, year |-> 0, quarter |-> EmptyStr]

Period(y, q) == [isNull |-> FALSE, year |-> y, quarter |-> q]

\* Mutant of yearOf: the underwriting year is also consulted when the
\* inception year is present but outside [2019, 2021].
yearOf_Mut(record) ==
    LET year   == record.inceptionYear
        uyYear == parseInt(record.uy)
    IN  IF (Falsy(year) \/ year.v < 2019 \/ year.v > 2021) /\ record.uy # EmptyStr
           /\ ~uyYear.nan /\ uyYear.v >= 2019 /\ uyYear.v <= 2021
        THEN Num(uyYear.v)
        ELSE year

\* Lines 184-192 of normalizeTimeData and 196-202 of the yearly GET: the
\* inception year, replaced by the underwriting year only when it is falsy.
yearOf(record) ==
    LET year   == record.inceptionYear
        uyYear == parseInt(record.uy)
    IN  IF Falsy(year) /\ record.uy # EmptyStr
           /\ ~uyYear.nan /\ uyYear.v >= 2019 /\ uyYear.v <= 2021
        THEN Num(uyYear.v)
        ELSE year

\* quarterFromComDate with the quarter number rounded down: Math.floor
quarterFromComDate_Mut(comDate, west) ==
    LET date == NewDate(comDate, west)
    IN  IF ~date.valid THEN QNaN
        ELSE CASE date.m \div 3 = 1 -> Q1
               [] date.m \div 3 = 2 -> Q2
               [] date.m \div 3 = 3 -> Q3
               [] OTHER             -> Q4

\* "Q" + Math.ceil((date.getMonth() + 1) / 3)
quarterFromComDate(comDate, west) ==
    LET date == NewDate(comDate, west)
    IN  IF ~date.valid THEN QNaN
        ELSE CASE (date.m + 2) \div 3 = 1 -> Q1
               [] (date.m + 2) \div 3 = 2 -> Q2
               [] (date.m + 2) \div 3 = 3 -> Q3
               [] OTHER                   -> Q4

\* normalizeTimeData(record) of the quarterly route
normalizeTimeData(record, west) ==
    LET year    == yearOf(record)
        quarter == toUpperCase(trim(record.inceptionQuarter))
    IN  IF Falsy(year) \/ year.v < 2019 \/ year.v > 2021 THEN Null
        ELSE
          LET viaMonth ==
                  LET month == toUpperCase(trim(record.inceptionMonth))
                  IN  IF month # EmptyStr
                      THEN quarterFromMonth(monthMap(month), quarter)
                      ELSE quarter
              viaDigit ==
                  IF viaMonth = EmptyStr /\ record.inceptionQuarter # EmptyStr
                     /\ IsBareDigit14(record.inceptionQuarter)
                  THEN <<"Q">> \o record.inceptionQuarter
                  ELSE viaMonth
              viaComDate ==
                  IF viaDigit = EmptyStr /\ record.comDate.fmt # "empty"
                  THEN quarterFromComDate(record.comDate, west)
                  ELSE viaDigit
              final ==
                  IF quarter = EmptyStr \/ IsBareDigit14(quarter)
                  THEN viaComDate ELSE quarter
          IN  IF final = EmptyStr \/ ~IsQ14(final) THEN Null
              ELSE Period(year.v, final)

\* yearlyBucket without the fallback to the underwriting-year label
yearlyBucket_Mut(record) ==
    LET year == record.inceptionYear
    IN  IF ~Falsy(year) /\ year.v \in {2019, 2020, 2021} THEN year.v ELSE 0

\* The yearly route's grouping: the bucket (2019..2021) the record is pushed
\* to, or 0 when it is pushed to none.
yearlyBucket(record) ==
    LET year == yearOf(record)
    IN  IF ~Falsy(year) /\ year.v \in {2019, 2020, 2021} THEN year.v ELSE 0

(***************************************************************************)
(* Inputs of the resolver: the cells a parsed record can carry             *)
(***************************************************************************)
ComDate(f, a, b, yy) == [fmt |-> f, p1 |-> a, p2 |-> b, y |-> yy]

NoComDate == ComDate("empty", 0, 0, 0)

UYLabels ==
    { <<"2","0","2","0">>,              \* "2020"
      <<"2","0","1","8">>,              \* "2018"
      <<"2","0","2","1","A">>,          \* "2021A"
      <<"U","Y","2","0">> }             \* "UY20"

InceptionYears == { Undefined, Num(0), Num(2018), Num(2020), Num(2022) }

InceptionQuarters ==
    { EmptyStr,
      <<"Q","1">>, <<"q","3">>, <<" ","Q","2"," ">>,
      <<"2">>, <<"4">>,
      <<"X">>, <<"Q","5">> }

InceptionMonths ==
    { EmptyStr,
      <<"J","a","n">>, <<"F","E","B">>, <<"m","a","r">>, <<"A","p","r">>,
      <<"m","a","y">>, <<"J","u","n">>, <<"j","u","l">>, <<"A","U","G">>,
      <<" ","S","e","p"," ">>, <<"O","c","t">>, <<"n","o","v">>, <<"D","e","c">>,
      <<"J","a","n","u","a","r","y">>, <<"f","e","b","r","u","a","r","y">>,
      <<"M","A","R","C","H">>, <<"A","p","r","i","l">>, <<"J","u","n","e">>,
      <<"j","u","l","y">>, <<"A","u","g","u","s","t">>,
      <<"S","e","p","t","e","m","b","e","r">>, <<"o","c","t","o","b","e","r">>,
      <<"N","o","v","e","m","b","e","r">>, <<"D","E","C","E","M","B","E","R">>,
      <<"S","e","p","t">>,
      <<"1","3">> }

ComDates ==
    { NoComDate,
      ComDate("iso", 4, 1, 2020),       \* "2020-04-01"
      ComDate("iso", 8, 15, 2020),      \* "2020-08-15"
      ComDate("slash", 5, 1, 2020),     \* "05/01/2020"
      ComDate("slash", 15, 8, 2020),    \* "15/08/2020"
      ComDate("slash", 5, 15, 2020),    \* "05/15/2020"
      ComDate("text", 15, 8, 2020),     \* "15 Aug 2020"
      ComDate("junk", 0, 0, 0) }        \* "n/a"

ResolverInputs ==
    [uy : UYLabels, inceptionYear : InceptionYears,
     inceptionQuarter : InceptionQuarters, inceptionMonth : InceptionMonths,
     comDate : ComDates]

(***************************************************************************)
(* Specification of the resolver: one record, resolved by both routes      *)
(***************************************************************************)
ResolverIdle ==
    /\ rec = [uy |-> <<"2","0","2","0">>, inceptionYear |-> Undefined,
              inceptionQuarter |-> EmptyStr, inceptionMonth |-> EmptyStr,
              comDate |-> NoComDate]
    /\ tzWest = FALSE
    /\ qres = Null
    /\ yres = 0
    /\ rdone = [q |-> FALSE, y |-> FALSE]

InitResolver ==
    /\ rec \in ResolverInputs
    /\ tzWest \in BOOLEAN
    /\ qres = Null
    /\ yres = 0
    /\ rdone = [q |-> FALSE, y |-> FALSE]

\* quarterly GET, the map over allData
ResolveQuarterly ==
    /\ ~rdone.q
    /\ qres' = normalizeTimeData(rec, tzWest)
    /\ rdone' = [rdone EXCEPT !.q = TRUE]
    /\ UNCHANGED <<rec, tzWest, yres>>
    /\ UNCHANGED <<loadVars, aggVars, pageVars, parseVars>>

\* yearly GET, the forEach over allData
ResolveYearly ==
    /\ ~rdone.y
    /\ yres' = yearlyBucket(rec)
    /\ rdone' = [rdone EXCEPT !.y = TRUE]
    /\ UNCHANGED <<rec, tzWest, qres>>
    /\ UNCHANGED <<loadVars, aggVars, pageVars, parseVars>>

(***************************************************************************)
(* The cached load of the API routes                                       *)
(*                                                                         *)
(* Every route module has its own csvDataCache / lastModified pair, so a   *)
(* behaviour follows the requests of one route (chosen initially).  The    *)
(* yearly route's loadCSVData is line for line the quarterly one, so       *)
(* "quarterly" stands for both.                                            *)
(* null is 0 for lastModified (both are falsy in `lastModified && ...`)    *)
(* and [set |-> FALSE] for the cache.                                      *)
(***************************************************************************)
NumRequests == 2        \* requests that can be in flight together
MaxMtime    == 2        \* last-modified timestamps 1..MaxMtime
MaxWrites   == 2        \* writes of the file that are followed
NumVersions == 2        \* distinct contents the file takes

Routes   == {"quarterly", "data", "dimensions"}
Requests == 1..NumRequests
Versions == 1..NumVersions
Mtimes   == 1..MaxMtime

\* The rows of content version v (after the header line): row k has all its
\* cells unless it is the cut-off row before the last of an odd version; its
\* UY cell
\* cycles through "2019", "2020", "" and " ".
RowUY(n) ==
    CASE n % 4 = 0 -> <<"2","0","1","9">>
      [] n % 4 = 1 -> <<"2","0","2","0">>
      [] n % 4 = 2 -> EmptyStr
      [] OTHER     -> <<" ">>

NumRows(v) == v + 3

FileContent(v) ==
    [k \in 1..NumRows(v) |->
        [id    |-> <<v, k>>,
         short |-> (v % 2 = 1 /\ k = NumRows(v) - 1),
         uy    |-> RowUY(v + k)]]

\* parseRows with the bug C26 rules out: a row with too few values ends the
\* loop, and the rows after it are not parsed.
RECURSIVE parseRows_Mut(_, _, _)
parseRows_Mut(lines, i, data) ==
    IF i > Len(lines) THEN data
    ELSE LET values == lines[i]
             uy     == trim(values.uy)
         IN  IF values.short THEN data
             ELSE IF uy # EmptyStr
                  THEN parseRows_Mut(lines, i + 1,
                                     Append(data, [id |-> values.id, uy |-> uy]))
                  ELSE parseRows_Mut(lines, i + 1, data)

\* parseCSVData: the loop over the data lines.  A row with fewer values than
\* headers is skipped; the record is pushed when its uy is non-empty.  The
\* quarterly/yearly parser trims every cell, the data parser trims the uy
\* cell: both test the trimmed text.
RECURSIVE parseRows(_, _, _)
parseRows(lines, i, data) ==
    IF i > Len(lines) THEN data
    ELSE LET values == lines[i]
             uy     == trim(values.uy)
         IN  IF values.short THEN parseRows(lines, i + 1, data)
             ELSE IF uy # EmptyStr
                  THEN parseRows(lines, i + 1,
                                 Append(data, [id |-> values.id, uy |-> uy]))
                  ELSE parseRows(lines, i + 1, data)

parseCSVData(csvContent) == parseRows(csvContent, 1, << >>)

\* extractDimensions: the distinct trimmed, non-empty values of the rows that
\* have all their cells.  A sorted list of distinct values is modelled by
\* its set.
RECURSIVE dimensionRows(_, _, _)
dimensionRows(lines, i, years) ==
    IF i > Len(lines) THEN years
    ELSE LET values == lines[i]
             uy     == trim(values.uy)
         IN  IF values.short THEN dimensionRows(lines, i + 1, years)
             ELSE IF uy # EmptyStr
                  THEN dimensionRows(lines, i + 1, years \cup {uy})
                  ELSE dimensionRows(lines, i + 1, years)

extractDimensions(csvContent) == dimensionRows(csvContent, 1, {})

\* What a route parses the file text into
ParseFor(r, csvContent) ==
    IF r = "dimensions" THEN extractDimensions(csvContent)
    ELSE parseCSVData(csvContent)

\* The value returned by the catch blocks: [] or the all-empty dimensions
EmptyValue(r) == IF r = "dimensions" THEN {} ELSE << >>

NullCache(r) == [set |-> FALSE, val |-> EmptyValue(r)]

Cached(v) == [set |-> TRUE, val |-> v]

\* The freshness test of the route:
\*   quarterly       :  csvDataCache && lastModified && currentModified <= lastModified
\*   data/dimensions :  ...Cache && lastModified && currentModified === lastModified
CacheIsFresh(r, cache, last, currentModified) ==
    /\ cache.set
    /\ last # 0
    /\ IF r \in {"quarterly", "yearly"}
       THEN currentModified <= last
       ELSE currentModified = last

\* Does an I/O error inside the load reach the caller?  quarterly has no
\* try around stat/readFile; data and dimensions catch and return empty.
LoadErrorPropagates(r) == r = "quarterly"

IdleRequest ==
    [pc |-> "idle", currentModified |-> 0, csvContent |-> << >>,
     forced |-> FALSE, statGen |-> 0, readGen |-> 0]

\* History kept beside the program's state.  read/reread: the file was read
\* (twice) since it last changed.  gen numbers the writes of the file;
\* a request notes the number at its stat (statGen) and at its readFile
\* (readGen), and contentGen/stampGen are the numbers of the content the
\* cache was parsed from and of the file version lastModified was taken from.
NoHistory ==
    [read |-> FALSE, reread |-> FALSE, gen |-> 0,
     contentGen |-> 0, stampGen |-> 0]

\* The response of a request whose load threw inside the route: the GET
\* catch answers 500 when the error propagates, otherwise the load's own
\* catch returns the empty value and the GET answers 200 with it.
AfterIOError(r, i, rq) ==
    IF LoadErrorPropagates(r)
    THEN [req |-> i, status |-> "error", src |-> "none", data |-> EmptyValue(r),
          currentModified |-> rq.currentModified, stamp |-> 0,
          ioFailed |-> TRUE, forced |-> rq.forced]
    ELSE [req |-> i, status |-> "ok", src |-> "fallback", data |-> EmptyValue(r),
          currentModified |-> rq.currentModified, stamp |-> 0,
          ioFailed |-> TRUE, forced |-> rq.forced]

NoResponse(r) ==
    [req |-> 0, status |-> "none", src |-> "none", data |-> EmptyValue(r),
     currentModified |-> 0, stamp |-> 0, ioFailed |-> FALSE, forced |-> FALSE]

LoadIdle ==
    /\ route = "quarterly"
    /\ file = [state |-> "ok", mtime |-> 1, version |-> 1]
    /\ csvDataCache = NullCache("quarterly")
    /\ lastModified = 0
    /\ req = [i \in Requests |-> IdleRequest]
    /\ resp = NoResponse("quarterly")
    /\ hist = NoHistory

InitLoad ==
    /\ route \in Routes
    /\ file = [state |-> "ok", mtime |-> 1, version |-> 1]
    /\ csvDataCache = NullCache(route)
    /\ lastModified = 0
    /\ req = [i \in Requests |-> IdleRequest]
    /\ resp = NoResponse(route)
    /\ hist = NoHistory

\* GET up to its first await.  Only the data route reads forceReload, and
\* clears the cache when it is "true".
StartRequest(i, force) ==
    /\ req[i].pc = "idle"
    /\ force => route = "data"
    /\ csvDataCache' = IF force THEN NullCache(route) ELSE csvDataCache
    /\ lastModified' = IF force THEN 0 ELSE lastModified
    /\ req' = [req EXCEPT ![i] =
                 [IdleRequest EXCEPT
                     !.pc = IF route = "dimensions" THEN "stat" ELSE "findPath",
                     !.forced = force]]
    /\ resp' = NoResponse(route)
    /\ hist' = IF force THEN [hist EXCEPT !.contentGen = 0, !.stampGen = 0]
                ELSE hist
    /\ UNCHANGED <<route, file>>
    /\ UNCHANGED <<resolverVars, aggVars, pageVars, parseVars>>

\* The loop over possiblePaths: `CSV file not found` is thrown outside any
\* try of loadCSVData, so it reaches the GET catch in every route that has
\* the loop.
FindPath(i) ==
    /\ req[i].pc = "findPath"
    /\ IF file.state = "missing"
       THEN /\ resp' = [req |-> i, status |-> "error", src |-> "none",
                        data |-> EmptyValue(route), currentModified |-> 0,
                        stamp |-> 0, ioFailed |-> TRUE, forced |-> req[i].forced]
            /\ req' = [req EXCEPT ![i] = IdleRequest]
       ELSE /\ req' = [req EXCEPT ![i].pc = "stat"]
            /\ resp' = NoResponse(route)
    /\ UNCHANGED <<route, file, csvDataCache, lastModified, hist>>
    /\ UNCHANGED <<resolverVars, aggVars, pageVars, parseVars>>

\* await fs.stat(csvPath) and the freshness test that follows it
StatFile(i) ==
    /\ req[i].pc = "stat"
    /\ IF file.state = "missing"
       THEN /\ resp' = AfterIOError(route, i, req[i])
            /\ req' = [req EXCEPT ![i] = IdleRequest]
       ELSE IF CacheIsFresh(route, csvDataCache, lastModified, file.mtime)
            THEN /\ resp' = [req |-> i, status |-> "ok", src |-> "cache",
                             data |-> csvDataCache.val,
                             currentModified |-> file.mtime,
                             stamp |-> lastModified,
                             ioFailed |-> FALSE, forced |-> req[i].forced]
                 /\ req' = [req EXCEPT ![i] = IdleRequest]
            ELSE /\ req' = [req EXCEPT ![i].pc = "read",
                                       ![i].currentModified = file.mtime,
                                       ![i].statGen = hist.gen]
                 /\ resp' = NoResponse(route)
    /\ UNCHANGED <<route, file, csvDataCache, lastModified, hist>>
    /\ UNCHANGED <<resolverVars, aggVars, pageVars, parseVars>>

\* ReadFile with the bug C6 rules out: the module-level cache is pointed at
\* the array while it is being filled (only the first line parsed so far)
\* and stamped, before the parse has finished.
ReadFile_Mut(i) ==
    /\ req[i].pc = "read"
    /\ IF file.state # "ok"
       THEN /\ resp' = AfterIOError(route, i, req[i])
            /\ req' = [req EXCEPT ![i] = IdleRequest]
            /\ hist' = hist
            /\ UNCHANGED <<csvDataCache, lastModified>>
       ELSE /\ req' = [req EXCEPT ![i].pc = "parse",
                                  ![i].csvContent = FileContent(file.version),
                                  ![i].readGen = hist.gen]
            /\ resp' = NoResponse(route)
            /\ hist' = [hist EXCEPT !.read = TRUE,
                                    !.reread = hist.reread \/ hist.read,
                                    !.contentGen = hist.gen,
                                    !.stampGen = req[i].statGen]
            /\ csvDataCache' =
                  Cached(ParseFor(route, SubSeq(FileContent(file.version), 1, 1)))
            /\ lastModified' = req[i].currentModified
    /\ UNCHANGED <<route, file>>
    /\ UNCHANGED <<resolverVars, aggVars, pageVars, parseVars>>

\* await fs.readFile(csvPath, 'utf-8')
ReadFile(i) ==
    /\ req[i].pc = "read"
    /\ IF file.state # "ok"
       THEN /\ resp' = AfterIOError(route, i, req[i])
            /\ req' = [req EXCEPT ![i] = IdleRequest]
            /\ hist' = hist
       ELSE /\ req' = [req EXCEPT ![i].pc = "parse",
                                  ![i].csvContent = FileContent(file.version),
                                  ![i].readGen = hist.gen]
            /\ resp' = NoResponse(route)
            /\ hist' = [hist EXCEPT !.read = TRUE,
                                    !.reread = hist.reread \/ hist.read]
    /\ UNCHANGED <<route, file, csvDataCache, lastModified>>
    /\ UNCHANGED <<resolverVars, aggVars, pageVars, parseVars>>

\* FinishLoad with the bug C28 rules out: the timestamp stored beside the
\* parsed value is taken from the file as it is when the parse has finished,
\* instead of the one read by stat before the content was read.
FinishLoad_Mut(i) ==
    /\ req[i].pc = "parse"
    /\ LET data == ParseFor(route, req[i].csvContent)
       IN  /\ csvDataCache' = Cached(data)
           /\ lastModified' = file.mtime
           /\ resp' = [req |-> i, status |-> "ok", src |-> "parsed",
                       data |-> data,
                       currentModified |-> file.mtime,
                       stamp |-> 0, ioFailed |-> FALSE,
                       forced |-> req[i].forced]
    /\ req' = [req EXCEPT ![i] = IdleRequest]
    /\ hist' = [hist EXCEPT !.contentGen = req[i].readGen,
                            !.stampGen = hist.gen]
    /\ UNCHANGED <<route, file>>
    /\ UNCHANGED <<resolverVars, aggVars, pageVars, parseVars>>

\* The continuation of readFile: parse, then store the parsed value and the
\* timestamp, then return the value to the GET, which answers with it.
FinishLoad(i) ==
    /\ req[i].pc = "parse"
    /\ LET data == ParseFor(route, req[i].csvContent)
       IN  /\ csvDataCache' = Cached(data)
           /\ lastModified' = req[i].currentModified
           /\ resp' = [req |-> i, status |-> "ok", src |-> "parsed",
                       data |-> data,
                       currentModified |-> req[i].currentModified,
                       stamp |-> 0, ioFailed |-> FALSE,
                       forced |-> req[i].forced]
    /\ req' = [req EXCEPT ![i] = IdleRequest]
    /\ hist' = [hist EXCEPT !.contentGen = req[i].readGen,
                            !.stampGen = req[i].statGen]
    /\ UNCHANGED <<route, file>>
    /\ UNCHANGED <<resolverVars, aggVars, pageVars, parseVars>>

\* The environment writes the file: new content and/or a new timestamp
\* (a timestamp can also go back, as when an older copy is moved in place).
ModifyFile(v, m) ==
    /\ file.state # "missing"
    /\ <<v, m>> # <<file.version, file.mtime>>
    /\ hist.gen < MaxWrites
    /\ file' = [file EXCEPT !.version = v, !.mtime = m]
    /\ hist' = [hist EXCEPT !.read = FALSE, !.reread = FALSE, !.gen = @ + 1]
    /\ resp' = NoResponse(route)
    /\ UNCHANGED <<route, csvDataCache, lastModified, req>>
    /\ UNCHANGED <<resolverVars, aggVars, pageVars, parseVars>>

RemoveFile ==
    /\ file.state # "missing"
    /\ file' = [file EXCEPT !.state = "missing"]
    /\ hist' = [hist EXCEPT !.read = FALSE, !.reread = FALSE]
    /\ resp' = NoResponse(route)
    /\ UNCHANGED <<route, csvDataCache, lastModified, req>>
    /\ UNCHANGED <<resolverVars, aggVars, pageVars, parseVars>>

CreateFile(v, m) ==
    /\ file.state = "missing"
    /\ hist.gen < MaxWrites
    /\ file' = [state |-> "ok", mtime |-> m, version |-> v]
    /\ hist' = [hist EXCEPT !.read = FALSE, !.reread = FALSE, !.gen = @ + 1]
    /\ resp' = NoResponse(route)
    /\ UNCHANGED <<route, csvDataCache, lastModified, req>>
    /\ UNCHANGED <<resolverVars, aggVars, pageVars, parseVars>>

\* The file's read permission is withdrawn or given back (stat still works).
SetReadable(b) ==
    /\ file.state = (IF b THEN "unreadable" ELSE "ok")
    /\ file' = [file EXCEPT !.state = IF b THEN "ok" ELSE "unreadable"]
    /\ resp' = NoResponse(route)
    /\ UNCHANGED <<route, csvDataCache, lastModified, req, hist>>
    /\ UNCHANGED <<resolverVars, aggVars, pageVars, parseVars>>

NextLoad ==
    \/ \E i \in Requests, force \in BOOLEAN : StartRequest(i, force)
    \/ \E i \in Requests : FindPath(i)
    \/ \E i \in Requests : StatFile(i)
    \/ \E i \in Requests : ReadFile(i)
    \/ \E i \in Requests : FinishLoad(i)
    \/ \E v \in Versions, m \in Mtimes : ModifyFile(v, m)
    \/ RemoveFile
    \/ \E v \in Versions, m \in Mtimes : CreateFile(v, m)
    \/ \E b \in BOOLEAN : SetReadable(b)

(***************************************************************************)
(* Aggregation and ratio engine                                            *)
(*                                                                         *)
(* Base measures are integers.  A ratio is a JavaScript number, modelled   *)
(* exactly: a finite value is a reduced fraction n/d (d > 0), and the two  *)
(* non-finite results of a division are kept apart (x/0 is an infinity,    *)
(* 0/0 is NaN).  Floating-point rounding is not modelled.                  *)
(***************************************************************************)
Abs(x) == IF x < 0 THEN -x ELSE x

Sign(x) == IF x < 0 THEN -1 ELSE IF x > 0 THEN 1 ELSE 0

RECURSIVE GCD(_, _)
GCD(a, b) == IF b = 0 THEN a ELSE GCD(b, a % b)

NaN == [k |-> "nan", n |-> 0, d |-> 1]

Infinity(sgn) == [k |-> "inf", n |-> sgn, d |-> 1]

Fin(n, d) ==
    LET g == GCD(Abs(n), Abs(d))
        t == Sign(d)
    IN  [k |-> "fin", n |-> (t * n) \div g, d |-> (t * d) \div g]

Number(x) == [k |-> "fin", n |-> x, d |-> 1]

IsFinite(a) == a.k = "fin"

\* a + b
Plus(a, b) ==
    CASE a.k = "nan" \/ b.k = "nan" -> NaN
      [] a.k = "fin" /\ b.k = "fin" -> Fin(a.n * b.d + b.n * a.d, a.d * b.d)
      [] a.k = "inf" /\ b.k = "inf" -> IF a.n = b.n THEN a ELSE NaN
      [] a.k = "inf" -> a
      [] OTHER -> b

\* a * b
Times(a, b) ==
    CASE a.k = "nan" \/ b.k = "nan" -> NaN
      [] a.k = "fin" /\ b.k = "fin" -> Fin(a.n * b.n, a.d * b.d)
      [] Sign(a.n) * Sign(b.n) = 0 -> NaN
      [] OTHER -> Infinity(Sign(a.n) * Sign(b.n))

\* a / b
Over(a, b) ==
    CASE a.k = "nan" \/ b.k = "nan" -> NaN
      [] a.k = "fin" /\ b.k = "fin" ->
            IF b.n # 0 THEN Fin(a.n * b.d, a.d * b.n)
            ELSE IF a.n = 0 THEN NaN ELSE Infinity(Sign(a.n))
      [] a.k = "inf" /\ b.k = "inf" -> NaN
      [] a.k = "inf" -> Infinity(a.n * (IF b.n < 0 THEN -1 ELSE 1))
      [] OTHER -> Number(0)

\* safeDivide(numerator, denominator)
safeDivide(numerator, denominator) ==
    IF (IsFinite(denominator) /\ denominator.n = 0)
          \/ denominator.k = "nan" \/ numerator.k = "nan"
    THEN Number(0)
    ELSE Over(numerator, denominator)

\* records.reduce((sum, r) => sum + r[field], 0) over integer fields
RECURSIVE SumField(_, _)
SumField(records, field) ==
    IF records = << >> THEN 0
    ELSE records[1][field] + SumField(Tail(records), field)

\* rows.reduce((sum, row) => sum + row[field], 0) over ratio fields
RECURSIVE SumRatio(_, _)
SumRatio(rows, field) ==
    IF rows = << >> THEN Number(0)
    ELSE Plus(rows[1][field], SumRatio(Tail(rows), field))

\* (part / whole) * 100 behind the guard `whole > 0 ? ... : 0`
GuardedPct(part, whole) ==
    IF whole > 0 THEN Times(Over(Number(part), Number(whole)), Number(100))
    ELSE Number(0)

MaxRecs == 2            \* records in a dataset

Premiums     == {-1, 0, 1, 2}
Acquisitions == {0, 1}
PaidClaims   == {0, 1}
OsLosses     == {0, 1}
Brokers      == {EmptyStr, <<"A">>, <<"B">>}
Quarters     == {Q1, Q2}
QuarterOrder == <<Q1, Q2, Q3, Q4>>

Records ==
    [grossUWPrem : Premiums, grossActualAcq : Acquisitions,
     grossPaidClaims : PaidClaims, grossOsLoss : OsLosses,
     broker : Brokers, normalizedQuarter : Quarters]

Datasets == UNION {[1..n -> Records] : n \in 0..MaxRecs}

NoView == [kind |-> "none", rows |-> << >>, totals |-> << >>]

\* ---- quarterly route, GET: the four buckets and the totals ----
QuarterBucket(quarterNum, quarterData) ==
    LET premium        == SumField(quarterData, "grossUWPrem")
        acquisition    == SumField(quarterData, "grossActualAcq")
        paidClaims     == SumField(quarterData, "grossPaidClaims")
        osLoss         == SumField(quarterData, "grossOsLoss")
        incurredClaims == paidClaims + osLoss
        lossRatioPct   == GuardedPct(incurredClaims, premium)
        acquisitionPct == GuardedPct(acquisition, premium)
    IN  [quarter |-> quarterNum, policyCount |-> Len(quarterData),
         premium |-> premium, acquisition |-> acquisition,
         paidClaims |-> paidClaims, osLoss |-> osLoss,
         incurredClaims |-> incurredClaims,
         technicalResult |-> premium - incurredClaims - acquisition,
         lossRatioPct |-> lossRatioPct, acquisitionPct |-> acquisitionPct,
         combinedRatioPct |-> Plus(lossRatioPct, acquisitionPct)]

\* QuarterlyTotal with an accumulator fed from the wrong measure
\* (totalAcquisition += premium)
QuarterlyTotal_Mut(quarters) ==
    LET totalPremium     == SumField(quarters, "premium")
        totalAcquisition == SumField(quarters, "premium")
        totalPaidClaims  == SumField(quarters, "paidClaims")
        totalOsLoss      == SumField(quarters, "osLoss")
        totalIncurredClaims == totalPaidClaims + totalOsLoss
        totalLossRatioPct   == GuardedPct(totalIncurredClaims, totalPremium)
        totalAcquisitionPct == GuardedPct(totalAcquisition, totalPremium)
    IN  [quarter |-> 0, policyCount |-> SumField(quarters, "policyCount"),
         premium |-> totalPremium, acquisition |-> totalAcquisition,
         paidClaims |-> totalPaidClaims, osLoss |-> totalOsLoss,
         incurredClaims |-> totalIncurredClaims,
         technicalResult |->
             totalPremium - totalIncurredClaims - totalAcquisition,
         lossRatioPct |-> totalLossRatioPct,
         acquisitionPct |-> totalAcquisitionPct,
         combinedRatioPct |-> Plus(totalLossRatioPct, totalAcquisitionPct)]

QuarterlyTotal(quarters) ==
    LET totalPremium     == SumField(quarters, "premium")
        totalAcquisition == SumField(quarters, "acquisition")
        totalPaidClaims  == SumField(quarters, "paidClaims")
        totalOsLoss      == SumField(quarters, "osLoss")
        totalIncurredClaims == totalPaidClaims + totalOsLoss
        totalLossRatioPct   == GuardedPct(totalIncurredClaims, totalPremium)
        totalAcquisitionPct == GuardedPct(totalAcquisition, totalPremium)
    IN  [quarter |-> 0, policyCount |-> SumField(quarters, "policyCount"),
         premium |-> totalPremium, acquisition |-> totalAcquisition,
         paidClaims |-> totalPaidClaims, osLoss |-> totalOsLoss,
         incurredClaims |-> totalIncurredClaims,
         technicalResult |->
             totalPremium - totalIncurredClaims - totalAcquisition,
         lossRatioPct |-> totalLossRatioPct,
         acquisitionPct |-> totalAcquisitionPct,
         combinedRatioPct |-> Plus(totalLossRatioPct, totalAcquisitionPct)]

\* QuarterlyView building buckets only for the quarters that have records
QuarterlyView_Mut(records) ==
    LET quarters ==
          [q \in 1..4 |->
              QuarterBucket(q, SelectSeq(records,
                  LAMBDA r : r.normalizedQuarter = QuarterOrder[q]))]
        present == SelectSeq(quarters, LAMBDA b : b.policyCount > 0)
    IN  [kind |-> "quarterly", rows |-> present,
         totals |-> <<QuarterlyTotal(present)>>]

QuarterlyView(records) ==
    LET quarters ==
          [q \in 1..4 |->
              QuarterBucket(q, SelectSeq(records,
                  LAMBDA r : r.normalizedQuarter = QuarterOrder[q]))]
    IN  [kind |-> "quarterly", rows |-> quarters,
         totals |-> <<QuarterlyTotal(quarters)>>]

\* ---- lib/kpi: aggregateKPIs(records) ----
aggregateKPIs(records) ==
    IF Len(records) = 0
    THEN [premium |-> 0, paidClaims |-> 0, outstandingClaims |-> 0,
          incurredClaims |-> 0, expense |-> 0, lossRatio |-> Number(0),
          expenseRatio |-> Number(0), combinedRatio |-> Number(0),
          numberOfAccounts |-> 0]
    ELSE
    LET totalPremium           == SumField(records, "grossUWPrem")
        totalPaidClaims        == SumField(records, "grossPaidClaims")
        totalOutstandingClaims == SumField(records, "grossOsLoss")
        totalIncurredClaims    == totalPaidClaims + totalOutstandingClaims
        totalExpense           == SumField(records, "grossActualAcq")
        lossRatio    == Times(safeDivide(Number(totalIncurredClaims),
                                         Number(totalPremium)), Number(100))
        expenseRatio == Times(safeDivide(Number(totalExpense),
                                         Number(totalPremium)), Number(100))
    IN  [premium |-> totalPremium, paidClaims |-> totalPaidClaims,
         outstandingClaims |-> totalOutstandingClaims,
         incurredClaims |-> totalIncurredClaims, expense |-> totalExpense,
         lossRatio |-> lossRatio, expenseRatio |-> expenseRatio,
         combinedRatio |-> Plus(lossRatio, expenseRatio),
         numberOfAccounts |-> Len(records)]

\* ---- client overview page: clientData (clientType 'broker') ----
\* Object.keys(clientGroups).sort(): the client names in lexical order
SortedNames == << <<"A">>, <<"B">>, <<"C">>, <<"a">> >>

calculateClientMetrics(clientRecords) ==
    LET premium     == SumField(clientRecords, "grossUWPrem")
        acquisition == SumField(clientRecords, "grossActualAcq")
        claims      == SumField(clientRecords, "grossPaidClaims")
                         + SumField(clientRecords, "grossOsLoss")
        lossRatio   == GuardedPct(claims, premium)
        acquisitionCostsPct == GuardedPct(acquisition, premium)
    IN  [name |-> clientRecords[1].broker, premium |-> premium,
         lossRatio |-> lossRatio, policyCount |-> Len(clientRecords),
         incurredClaims |-> claims, acquisitionCosts |-> acquisition,
         technicalResult |-> premium - claims - acquisition,
         combinedRatio |-> Plus(lossRatio, acquisitionCostsPct),
         percentageOfTotal |-> Number(0)]

\* clientMetrics.sort((a, b) => b.premium - a.premium): a stable sort,
\* premium descending
RECURSIVE InsertByPremium(_, _)
InsertByPremium(sorted, x) ==
    IF sorted = << >> THEN <<x>>
    ELSE IF sorted[1].premium >= x.premium
         THEN <<sorted[1]>> \o InsertByPremium(Tail(sorted), x)
         ELSE <<x>> \o sorted

RECURSIVE SortByPremium(_)
SortByPremium(rows) ==
    IF rows = << >> THEN << >>
    ELSE InsertByPremium(SortByPremium(SubSeq(rows, 1, Len(rows) - 1)),
                         rows[Len(rows)])

\* The combinedRatio of a totals row:
\*   rows.length > 0 ? rows.reduce((sum, c) => sum + c.combinedRatio, 0) / rows.length : 0
TotalsCombinedRatio(rows) ==
    IF Len(rows) > 0
    THEN Over(SumRatio(rows, "combinedRatio"), Number(Len(rows)))
    ELSE Number(0)

ClientTotalsRow(label, rows, grandTotal) ==
    LET total  == SumField(rows, "premium")
        claims == SumField(rows, "incurredClaims")
    IN  [name |-> label, premium |-> total,
         lossRatio |-> GuardedPct(claims, total),
         policyCount |-> SumField(rows, "policyCount"),
         incurredClaims |-> claims,
         acquisitionCosts |-> SumField(rows, "acquisitionCosts"),
         technicalResult |-> SumField(rows, "technicalResult"),
         combinedRatio |-> TotalsCombinedRatio(rows),
         percentageOfTotal |-> IF label = "Grand Total" THEN Number(100)
                               ELSE GuardedPct(total, grandTotal)]

\* clientData with the grand total taken over the displayed clients only
clientData_Mut(filteredData, maxClients) ==
    IF Len(filteredData) = 0
    THEN [kind |-> "clients", rows |-> << >>, totals |-> << >>]
    ELSE
    LET group(name) ==
            SelectSeq(filteredData,
                      LAMBDA r : trim(r.broker) # EmptyStr /\ r.broker = name)
        clients == SelectSeq(SortedNames, LAMBDA name : group(name) # << >>)
        clientMetrics ==
            SortByPremium([c \in 1..Len(clients) |->
                              calculateClientMetrics(group(clients[c]))])
        topClients ==
            SubSeq(clientMetrics, 1,
                   IF Len(clientMetrics) < maxClients THEN Len(clientMetrics)
                   ELSE maxClients)
        grandTotal == SumField(topClients, "premium")
        clientsWithPercentages ==
            [c \in 1..Len(topClients) |->
                [topClients[c] EXCEPT
                    !.percentageOfTotal =
                        GuardedPct(topClients[c].premium, grandTotal)]]
    IN  [kind |-> "clients", rows |-> clientsWithPercentages,
         totals |-> <<ClientTotalsRow("TOTAL", topClients, grandTotal),
                      ClientTotalsRow("Grand Total", clientMetrics, grandTotal)>>]

clientData(filteredData, maxClients) ==
    IF Len(filteredData) = 0
    THEN [kind |-> "clients", rows |-> << >>, totals |-> << >>]
    ELSE
    LET group(name) ==
            SelectSeq(filteredData,
                      LAMBDA r : trim(r.broker) # EmptyStr /\ r.broker = name)
        clients == SelectSeq(SortedNames, LAMBDA name : group(name) # << >>)
        clientMetrics ==
            SortByPremium([c \in 1..Len(clients) |->
                              calculateClientMetrics(group(clients[c]))])
        topClients ==
            SubSeq(clientMetrics, 1,
                   IF Len(clientMetrics) < maxClients THEN Len(clientMetrics)
                   ELSE maxClients)
        grandTotal == SumField(clientMetrics, "premium")
        clientsWithPercentages ==
            [c \in 1..Len(topClients) |->
                [topClients[c] EXCEPT
                    !.percentageOfTotal =
                        GuardedPct(topClients[c].premium, grandTotal)]]
    IN  [kind |-> "clients", rows |-> clientsWithPercentages,
         totals |-> <<ClientTotalsRow("TOTAL", topClients, grandTotal),
                      ClientTotalsRow("Grand Total", clientMetrics, grandTotal)>>]

MaxClientsOptions == {3, 5}

AggIdle ==
    /\ dataset = << >>
    /\ view = NoView

InitAgg ==
    /\ dataset \in Datasets
    /\ view = NoView

\* GET /api/quarterly over the resolved records of the requested year
QuarterlyGET ==
    /\ view' = QuarterlyView(dataset)
    /\ UNCHANGED dataset
    /\ UNCHANGED <<resolverVars, loadVars, pageVars, parseVars>>

\* A dashboard card computing aggregateKPIs over the filtered records
AggregateKPIs ==
    /\ view' = [kind |-> "kpi", rows |-> <<aggregateKPIs(dataset)>>,
                totals |-> << >>]
    /\ UNCHANGED dataset
    /\ UNCHANGED <<resolverVars, loadVars, pageVars, parseVars>>

\* The client overview page recomputing clientData
ClientOverview(maxClients) ==
    /\ view' = clientData(dataset, maxClients)
    /\ UNCHANGED dataset
    /\ UNCHANGED <<resolverVars, loadVars, pageVars, parseVars>>

NextAgg ==
    \/ QuarterlyGET
    \/ AggregateKPIs
    \/ \E maxClients \in MaxClientsOptions : ClientOverview(maxClients)

(***************************************************************************)
(* Period and country views over parsed records                            *)
(*                                                                         *)
(* The quarterly, yearly and world-map routes aggregate the parsed records *)
(* themselves: the quarterly route resolves each record's period first,    *)
(* the yearly route picks the year bucket inline, the world-map route      *)
(* groups by country name.  The three routes build a bucket and the totals *)
(* with the same statements, modelled once by QuarterBucket and            *)
(* QuarterlyTotal (the bucket's label is kept in the field `quarter`).     *)
(***************************************************************************)
ParsedRecords ==
    [uy : { <<"2","0","2","0">>, <<"2","0","1","8">> },
     inceptionYear : { Undefined, Num(2019) },
     inceptionQuarter : { EmptyStr, <<"Q","1">>, <<"q","4">> },
     inceptionMonth : { EmptyStr },
     comDate : { NoComDate },
     countryName : { EmptyStr, <<"K","W">> },
     broker : { EmptyStr },
     grossUWPrem : {1, 2}, grossActualAcq : {1},
     grossPaidClaims : {0, 1}, grossOsLoss : {0}]

ParsedDatasets == UNION {[1..n -> ParsedRecords] : n \in 0..MaxRecs}

\* The `year` query parameter: absent, or a year as text
YearParams == { EmptyStr, <<"2","0","1","9">>, <<"2","0","2","0">> }

YearOrder == <<2019, 2020, 2021>>

\* quarterly GET, the map callback's result: the record with its resolved
\* year and quarter, or null
withTimeData(record, timeData) ==
    [isNull |-> timeData.isNull,
     grossUWPrem |-> record.grossUWPrem,
     grossActualAcq |-> record.grossActualAcq,
     grossPaidClaims |-> record.grossPaidClaims,
     grossOsLoss |-> record.grossOsLoss,
     broker |-> record.broker,
     normalizedYear |-> timeData.year,
     normalizedQuarter |-> timeData.quarter]

\* quarterly GET: allData.map(normalizeTimeData ...).filter(...)
normalizedData(allData, year, west) ==
    SelectSeq([k \in 1..Len(allData) |->
                  withTimeData(allData[k], normalizeTimeData(allData[k], west))],
              LAMBDA r :
                  /\ ~r.isNull
                  /\ \/ year = EmptyStr
                     \/ /\ ~parseInt(year).nan
                        /\ r.normalizedYear = parseInt(year).v)

\* yearly GET: the three year groups, their buckets and the totals
YearlyView(allData) ==
    LET years ==
          [y \in 1..3 |->
              QuarterBucket(YearOrder[y],
                  SelectSeq(allData, LAMBDA r : yearlyBucket(r) = YearOrder[y]))]
    IN  [kind |-> "yearly", rows |-> years,
         totals |-> <<QuarterlyTotal(years)>>]

\* Object.entries(countryGroups): the truthy country names in the order
\* in which they first occur
RECURSIVE countryNames(_, _)
countryNames(records, seen) ==
    IF records = << >> THEN seen
    ELSE LET name == records[1].countryName
         IN  IF name # EmptyStr /\ \A k \in 1..Len(seen) : seen[k] # name
             THEN countryNames(Tail(records), Append(seen, name))
             ELSE countryNames(Tail(records), seen)

\* world-map GET: one bucket per country and the totals
CountryView(allData) ==
    LET names == countryNames(allData, << >>)
        countries ==
          [c \in 1..Len(names) |->
              QuarterBucket(names[c],
                  SelectSeq(allData, LAMBDA r : r.countryName = names[c]))]
    IN  [kind |-> "countries", rows |-> countries,
         totals |-> <<QuarterlyTotal(countries)>>]

\* One request is followed per behaviour: a handler reads the records only,
\* never the result of an earlier request.
InitViews ==
    /\ dataset \in ParsedDatasets
    /\ view = NoView

\* GET /api/quarterly?year=...
QuarterlyRequest(year) ==
    /\ view = NoView
    /\ view' = QuarterlyView(normalizedData(dataset, year, tzWest))
                @@ [year |-> IF year = EmptyStr THEN 0 ELSE parseInt(year).v]
    /\ UNCHANGED dataset
    /\ UNCHANGED <<resolverVars, loadVars, pageVars, parseVars>>

\* GET /api/yearly
YearlyRequest ==
    /\ view = NoView
    /\ view' = YearlyView(dataset)
    /\ UNCHANGED dataset
    /\ UNCHANGED <<resolverVars, loadVars, pageVars, parseVars>>

\* GET of the world-map route
WorldMapRequest ==
    /\ view = NoView
    /\ view' = CountryView(dataset)
    /\ UNCHANGED dataset
    /\ UNCHANGED <<resolverVars, loadVars, pageVars, parseVars>>

NextViews ==
    \/ \E year \in YearParams : QuarterlyRequest(year)
    \/ YearlyRequest
    \/ WorldMapRequest

\* ---- client overview over enough brokers for the display cap to apply ----
MaxClientRecs == 4      \* records in a client overview dataset

\* Normalized rows whose brokers include two spellings of one name
ClientRecords ==
    [grossUWPrem : {1, 2}, grossActualAcq : {0},
     grossPaidClaims : {0}, grossOsLoss : {0},
     broker : { <<"A">>, <<"a">>, <<"B">>, <<"C">> },
     normalizedQuarter : {Q1}]

InitClients ==
    /\ dataset \in UNION {[1..n -> ClientRecords] : n \in 0..MaxClientRecs}
    /\ view = NoView

NextClients == \E maxClients \in MaxClientsOptions : ClientOverview(maxClients)

(***************************************************************************)
(* Filtering: the client overview page's filters, the library's            *)
(* filterRecords and the data route's filterData                           *)
(***************************************************************************)
\* useState<FilterState>: no selection in any facet. The facets modelled are
\* country (display value trimmed by normalizeData) and broker (display
\* value kept as loaded).
NoFilters == [country |-> << >>, broker |-> << >>]

PageIdle == filters = NoFilters

\* Rows as /api/data returns them: text fields already trimmed by the route's
\* parseCSVData, '' when the cell is empty.
RawRecords ==
    [countryName : { <<"K","W">>, <<"k","w">>, <<"O","M">> },
     broker : { EmptyStr, <<"A">>, <<"B">> }]

RawDatasets == UNION {[1..n -> RawRecords] : n \in 0..MaxRecs}

\* normalizeData with the bug C27 rules out: norm takes one white-space
\* character off each end instead of all of them.
normalizeData_Mut(records) ==
    [i \in 1..Len(records) |->
        LET record == records[i]
            strip(v) ==
                LET l == IF v # EmptyStr /\ IsSpace(Head(v)) THEN Tail(v) ELSE v
                IN  IF l # EmptyStr /\ IsSpace(l[Len(l)])
                    THEN SubSeq(l, 1, Len(l) - 1) ELSE l
            broker == IF record.broker # EmptyStr
                         /\ trim(record.broker) # EmptyStr
                      THEN record.broker ELSE EmptyStr
        IN  [countryName |-> strip(record.countryName),
             broker      |-> broker,
             kCountry    |-> toLowerCase(strip(record.countryName)),
             kBroker     |-> IF broker # EmptyStr
                             THEN toLowerCase(strip(broker)) ELSE EmptyStr]]

\* normalizeData: norm(v) = (v ?? '').trim(), key(v) = norm(v).toLowerCase();
\* a blank broker becomes null, written EmptyStr here (a non-null broker is
\* never blank).
normalizeData(records) ==
    [i \in 1..Len(records) |->
        LET record == records[i]
            broker == IF record.broker # EmptyStr
                         /\ trim(record.broker) # EmptyStr
                      THEN record.broker ELSE EmptyStr
        IN  [countryName |-> trim(record.countryName),
             broker      |-> broker,
             kCountry    |-> toLowerCase(trim(record.countryName)),
             kBroker     |-> IF broker # EmptyStr
                             THEN toLowerCase(trim(broker)) ELSE EmptyStr]]

\* buildIndexes: for each key field a Map from key to the indices of the
\* rows that carry it; rows with a falsy key are in no entry.
buildIndexes(rows) ==
    LET index(field) ==
            [k \in {rows[i][field] : i \in 1..Len(rows)} \ {EmptyStr} |->
                {i \in 1..Len(rows) : rows[i][field] = k}]
    IN  [byCountry |-> index("kCountry"), byBroker |-> index("kBroker")]

\* Array.from(pool).map(index => normalizedRows[index]): the rows of the
\* pool among the first n, in index order
RECURSIVE RowsOfPool(_, _, _)
RowsOfPool(rows, pool, n) ==
    IF n = 0 THEN << >>
    ELSE RowsOfPool(rows, pool, n - 1)
            \o (IF n \in pool THEN <<rows[n]>> ELSE << >>)

\* filteredData with the selections of one facet intersected instead of
\* united
filteredData_Mut(normalizedRows, indexes, selected) ==
    IF Len(normalizedRows) = 0 THEN << >>
    ELSE
    LET get(index, selection) ==
            IF selection \in DOMAIN index THEN index[selection] ELSE {}
        facetIndices(index, selections) ==
            {i \in 1..Len(normalizedRows) :
                \A k \in 1..Len(selections) :
                    i \in get(index, toLowerCase(selections[k]))}
        afterCountry ==
            IF Len(selected.country) = 0 THEN 1..Len(normalizedRows)
            ELSE facetIndices(indexes.byCountry, selected.country)
        pool ==
            IF Len(selected.broker) = 0 THEN afterCountry
            ELSE afterCountry
                    \cap facetIndices(indexes.byBroker, selected.broker)
    IN  RowsOfPool(normalizedRows, pool, Len(normalizedRows))

\* filteredData: pool = all indices; for each facet with selections, the
\* union of indexes.get(selection.toLowerCase()) over the selections is
\* intersected with the pool.
filteredData(normalizedRows, indexes, selected) ==
    IF Len(normalizedRows) = 0 THEN << >>
    ELSE
    LET get(index, selection) ==
            IF selection \in DOMAIN index THEN index[selection] ELSE {}
        facetIndices(index, selections) ==
            UNION {get(index, toLowerCase(selections[k])) :
                       k \in 1..Len(selections)}
        afterCountry ==
            IF Len(selected.country) = 0 THEN 1..Len(normalizedRows)
            ELSE facetIndices(indexes.byCountry, selected.country)
        pool ==
            IF Len(selected.broker) = 0 THEN afterCountry
            ELSE afterCountry
                    \cap facetIndices(indexes.byBroker, selected.broker)
    IN  RowsOfPool(normalizedRows, pool, Len(normalizedRows))

\* [...new Set(...)].sort() over the modelled country names, in UTF-16 order
SortedCountries == << <<"K","W">>, <<"O","M">>, <<"k","w">> >>

\* filterOptions computed from all the loaded rows instead of the rows that
\* pass the filters
filterOptions_Mut(normalizedRows, rows) ==
    [country |-> SelectSeq(SortedCountries, LAMBDA v :
                    \E i \in 1..Len(normalizedRows) :
                        normalizedRows[i].countryName = v),
     broker  |-> SelectSeq(SortedNames, LAMBDA v :
                    \E i \in 1..Len(normalizedRows) :
                        normalizedRows[i].broker = v)]

\* filterOptions: per facet the distinct non-blank display values of the
\* rows that currently pass the filters, sorted
filterOptions(normalizedRows, rows) ==
    [country |-> SelectSeq(SortedCountries, LAMBDA v :
                    \E i \in 1..Len(rows) : rows[i].countryName = v),
     broker  |-> SelectSeq(SortedNames, LAMBDA v :
                    \E i \in 1..Len(rows) : rows[i].broker = v)]

\* The page's memos for the loaded records and a filter state
PageView(records, selected) ==
    LET normalizedRows == normalizeData(records)
        rows == filteredData(normalizedRows, buildIndexes(normalizedRows),
                             selected)
    IN  [kind |-> "page", rows |-> rows,
         options |-> filterOptions(normalizedRows, rows), totals |-> << >>]

InitPage ==
    /\ dataset \in RawDatasets
    /\ filters = NoFilters
    /\ view = PageView(dataset, NoFilters)

\* A selector's onValueChange: handleFilterChange(facet, [value]) with one of
\* the offered values, or handleFilterChange(facet, []) for "all"
handleFilterChange(filterType, values) ==
    /\ \/ values = << >>
       \/ /\ Len(values) = 1
          /\ \E k \in 1..Len(view.options[filterType]) :
                values[1] = view.options[filterType][k]
    /\ filters' = [filters EXCEPT ![filterType] = values]
    /\ view' = PageView(dataset, filters')
    /\ UNCHANGED dataset
    /\ UNCHANGED <<resolverVars, loadVars, parseVars>>

resetFilters ==
    /\ filters' = NoFilters
    /\ view' = PageView(dataset, filters')
    /\ UNCHANGED dataset
    /\ UNCHANGED <<resolverVars, loadVars, parseVars>>

\* The values a selector can pass
SelectorValues ==
    {<< >>} \cup {<<v>> : v \in {SortedCountries[k] : k \in 1..3}}
            \cup {<<v>> : v \in {SortedNames[k] : k \in 1..4}}

NextPage ==
    \/ \E filterType \in {"country", "broker"}, values \in SelectorValues :
           handleFilterChange(filterType, values)
    \/ resetFilters

\* ---- the filters as functions of an arbitrary filter state ----
\* The arrays of selected values of one facet: none, one or two values
Selections(S) ==
    {<< >>} \cup {<<a>> : a \in S} \cup {<<a, b>> : a, b \in S}

FilterStates ==
    [country : Selections({ <<"K","W">>, <<"k","w">>, <<"O","M">> }),
     broker  : Selections({ <<"A">>, <<"B">> })]

\* filterRecords (filters keyed by record field): no filter at all returns
\* the records; otherwise every facet with values must have some value equal
\* to the record's field, both lowercased and trimmed. The year key and
\* non-string fields are not modelled.
filterRecords(records, selected) ==
    IF \A key \in DOMAIN selected : Len(selected[key]) = 0 THEN records
    ELSE SelectSeq(records, LAMBDA record :
            \A key \in DOMAIN selected :
                \/ Len(selected[key]) = 0
                \/ \E k \in 1..Len(selected[key]) :
                      trim(toLowerCase(selected[key][k]))
                          = trim(toLowerCase(record[key])))

\* String.prototype.includes
Includes(s, t) ==
    \E i \in 0..(Len(s) - Len(t)) : SubSeq(s, i + 1, i + Len(t)) = t

\* filterData of the data route: params.get('country') is the first value of
\* the parameter (null when absent); a truthy value keeps the records whose
\* lowercased country name includes it lowercased.
filterData(data, params) ==
    LET country == IF Len(params.country) = 0 THEN EmptyStr
                   ELSE params.country[1]
    IN  IF country # EmptyStr
        THEN SelectSeq(data, LAMBDA record :
                Includes(toLowerCase(record.countryName),
                         toLowerCase(country)))
        ELSE data

InitFilter ==
    /\ dataset \in RawDatasets
    /\ filters \in FilterStates
    /\ view = NoView

\* The page's filteredData memo evaluated for the filter state
FilteredData ==
    /\ view = NoView
    /\ view' = [PageView(dataset, filters) EXCEPT !.kind = "filteredData"]
    /\ UNCHANGED <<dataset, filters>>
    /\ UNCHANGED <<resolverVars, loadVars, parseVars>>

\* filterRecords called with the selections keyed by record field
FilterRecords ==
    /\ view = NoView
    /\ view' = [kind |-> "filterRecords",
                rows |-> filterRecords(dataset,
                            [countryName |-> filters.country,
                             broker |-> filters.broker]),
                totals |-> << >>]
    /\ UNCHANGED <<dataset, filters>>
    /\ UNCHANGED <<resolverVars, loadVars, parseVars>>

\* GET /api/data?country=..&country=..: the country selections sent as the
\* values of the country parameter
DataRequest ==
    /\ view = NoView
    /\ view' = [kind |-> "filterData",
                rows |-> filterData(dataset, [country |-> filters.country]),
                totals |-> << >>]
    /\ UNCHANGED <<dataset, filters>>
    /\ UNCHANGED <<resolverVars, loadVars, parseVars>>

\* ---- the whole GET of the data route: filter, shuffle, cap ----
DefaultLimit == 2000

\* The `limit` query parameter: a cap below the dataset size, or absent
Limits == {1, DefaultLimit}

\* The outcomes of Math.floor(Math.random() * (i + 1)) for each index i of
\* the loop (1-based here: draws[i] is in 1..i)
Draws(n) == {draws \in [1..n -> 1..n] : \A i \in 1..n : draws[i] <= i}

\* shuffleArray: the loop from the last index down to the second, swapping
\* shuffled[i] with shuffled[j], on a copy of the array
RECURSIVE shuffleFrom(_, _, _)
shuffleFrom(shuffled, i, draws) ==
    IF i <= 1 THEN shuffled
    ELSE LET j == draws[i]
         IN  shuffleFrom([shuffled EXCEPT ![i] = shuffled[j],
                                          ![j] = shuffled[i]],
                         i - 1, draws)

shuffleArray(array, draws) == shuffleFrom(array, Len(array), draws)

\* Array.prototype.slice(0, limit)
sliceTo(array, limit) ==
    SubSeq(array, 1, IF limit < Len(array) THEN limit ELSE Len(array))

\* The request answered before this one, when it was a data request
NoPrevious ==
    [def |-> FALSE, params |-> [country |-> << >>], limit |-> 0,
     rows |-> << >>]

PreviousOf(v) ==
    IF v.kind = "data"
    THEN [def |-> TRUE, params |-> v.params, limit |-> v.limit,
          rows |-> v.rows]
    ELSE NoPrevious

\* The response of the data GET: data, total, and the request it answers
DataResponse(allData, params, limit, draws, previous) ==
    LET matching == filterData(allData, params)
    IN  [kind |-> "data",
         rows |-> sliceTo(shuffleArray(matching, draws), limit),
         totals |-> << >>,
         total |-> Len(matching),
         params |-> params, limit |-> limit, previous |-> previous]

\* DataGET with the bug C23 rules out: the array loadCSVData returned (the
\* cache itself) is shuffled where it is, and the answer is cut from it.
DataGET_Mut(params, limit, draws) ==
    /\ view = NoView \/ (view.kind = "data" /\ ~view.previous.def)
    /\ Len(draws) = Len(dataset)
    /\ dataset' = shuffleArray(dataset, draws)
    /\ view' = [kind |-> "data",
                rows |-> sliceTo(filterData(dataset', params), limit),
                totals |-> << >>,
                total |-> Len(filterData(dataset, params)),
                params |-> params, limit |-> limit,
                previous |-> PreviousOf(view)]
    /\ UNCHANGED filters
    /\ UNCHANGED <<resolverVars, loadVars, parseVars>>

\* GET /api/data?country=..&limit=.. (a first request, or a second one
\* after a first whose answer is kept for comparison): allData is the cached array;
\* filterData starts from a copy of it ([...data]) and shuffleArray from a
\* copy of the filtered array, so the cached array is left as it is.
DataGET(params, limit, draws) ==
    /\ view = NoView \/ (view.kind = "data" /\ ~view.previous.def)
    /\ Len(draws) = Len(filterData(dataset, params))
    /\ view' = DataResponse(dataset, params, limit, draws, PreviousOf(view))
    /\ UNCHANGED <<dataset, filters>>
    /\ UNCHANGED <<resolverVars, loadVars, parseVars>>

NextFilter ==
    \/ FilteredData
    \/ FilterRecords
    \/ DataRequest
    \/ \E limit \in Limits, draws \in UNION {Draws(n) : n \in 0..MaxRecs} :
           DataGET([country |-> filters.country], limit, draws)

(***************************************************************************)
(* Numeric cells: parseFloat and the two routes' coercions                 *)
(***************************************************************************)
MaxCellLen == 3         \* characters in a generated cell

RECURSIVE Pow10(_)
Pow10(n) == IF n = 0 THEN 1 ELSE 10 * Pow10(n - 1)

InfinityLiteral == <<"I","n","f","i","n","i","t","y">>

\* parseFloat(s): leading white space skipped, optional sign, then either
\* the literal Infinity or the longest prefix digits[.digits]; NaN when
\* there is neither. Exponents are outside the modelled alphabet.
parseFloat(s) ==
    LET t    == TrimLeft(s)
        neg  == t # EmptyStr /\ Head(t) = "-"
        sgn  == t # EmptyStr /\ Head(t) \in {"-", "+"}
        body == IF sgn THEN Tail(t) ELSE t
        i    == DigitPrefixLen(body)
        rest == SubSeq(body, i + 1, Len(body))
        f    == IF rest # EmptyStr /\ Head(rest) = "."
                THEN DigitPrefixLen(Tail(rest)) ELSE 0
        n    == DigitsValue(SubSeq(body, 1, i)) * Pow10(f)
                   + DigitsValue(SubSeq(body, i + 2, i + 1 + f))
    IN  IF Len(body) >= 8 /\ SubSeq(body, 1, 8) = InfinityLiteral
        THEN Infinity(IF neg THEN -1 ELSE 1)
        ELSE IF i = 0 /\ f = 0 THEN NaN
        ELSE Fin(IF neg THEN 0 - n ELSE n, Pow10(f))

\* quarterly route: safeParseFloat
safeParseFloat(value) ==
    IF value = EmptyStr \/ trim(value) = EmptyStr THEN Number(0)
    ELSE LET cleaned == SelectSeq(value, LAMBDA c : ~IsSpace(c) /\ c # ",")
             number  == parseFloat(cleaned)
         IN  IF number.k = "nan" THEN Number(0) ELSE number

\* data route: parseFloat(values[n]) || 0
parseFloatOrZero(value) ==
    LET number == parseFloat(value)
    IN  IF number.k = "nan" \/ (number.k = "fin" /\ number.n = 0)
        THEN Number(0) ELSE number

\* The cells of a numeric column: every text of up to MaxCellLen characters
\* over a sign, a digit, a point, a space and a letter, and the literals
\* Infinity and -Infinity
Cells ==
    UNION {[1..n -> {"-", "1", ".", " ", "x"}] : n \in 0..MaxCellLen}
        \cup {InfinityLiteral, <<"-">> \o InfinityLiteral}

NoParse == [by |-> "none", value |-> Number(0)]

ParseIdle == cell = EmptyStr /\ parsed = NoParse

InitParse ==
    /\ cell \in Cells
    /\ parsed = NoParse

\* quarterly route, parseCSVData: the cell is trimmed when the line is split,
\* then coerced by safeParseFloat
ParseQuarterlyCell ==
    /\ parsed = NoParse
    /\ parsed' = [by |-> "quarterly", value |-> safeParseFloat(trim(cell))]
    /\ UNCHANGED cell
    /\ UNCHANGED <<resolverVars, loadVars, aggVars, pageVars>>

\* data route, parseCSVData: parseFloat(values[n]) || 0 on the cell as split
ParseDataCell ==
    /\ parsed = NoParse
    /\ parsed' = [by |-> "data", value |-> parseFloatOrZero(cell)]
    /\ UNCHANGED cell
    /\ UNCHANGED <<resolverVars, loadVars, aggVars, pageVars>>

NextParse == ParseQuarterlyCell \/ ParseDataCell

\* ---- the three-record scenario of the quarterly aggregation ----
\* A parsed record with the given period cells and measures; the other cells
\* are empty.
ScenarioRecord(quarter, month, date, premium, acq, paid, os) ==
    [uy |-> <<"2","0","2","0">>, inceptionYear |-> Undefined,
     inceptionQuarter |-> quarter, inceptionMonth |-> month, comDate |-> date,
     countryName |-> EmptyStr, broker |-> EmptyStr,
     grossUWPrem |-> premium, grossActualAcq |-> acq,
     grossPaidClaims |-> paid, grossOsLoss |-> os]

ScenarioRecords ==
    << ScenarioRecord(<<"Q","1">>, EmptyStr, NoComDate, 1000, 200, 100, 50),
       ScenarioRecord(EmptyStr, <<"M","a","y">>, NoComDate, 500, 50, 600, 0),
       ScenarioRecord(EmptyStr, EmptyStr, ComDate("text", 15, 8, 2020),
                      0, 0, 10, 0) >>

\* The datasets made of scenario records: any of them, in any order, with
\* repetitions, up to three records
InitScenario ==
    /\ dataset \in UNION {[1..n -> {ScenarioRecords[k] : k \in 1..3}] :
                              n \in 0..3}
    /\ view = NoView

\* ---- the rejection rule of the row loop, per route ----
\* The world-map parser's row loop: as the quarterly one (every cell trimmed),
\* but the record is pushed only when both its uy and its countryName are
\* non-empty.
RECURSIVE worldMapRows(_, _, _)
worldMapRows(lines, i, data) ==
    IF i > Len(lines) THEN data
    ELSE LET values      == lines[i]
             uy          == trim(values.uy)
             countryName == trim(values.countryName)
         IN  IF values.short THEN worldMapRows(lines, i + 1, data)
             ELSE IF uy # EmptyStr /\ countryName # EmptyStr
                  THEN worldMapRows(lines, i + 1,
                                    Append(data, [id |-> values.id, uy |-> uy]))
                  ELSE worldMapRows(lines, i + 1, data)

\* The cells of a data line that has all its cells: a UY, a country, a
\* broker, a premium and a commitment date, each present, blank or malformed
MaxLines == 2

LineCells ==
    [uy          : {<<"2","0","1","9">>, EmptyStr, <<" ">>},
     countryName : {<<"K","W">>, EmptyStr, <<" ">>},
     broker      : {<<"B">>, EmptyStr},
     grossUWPrem : {<<"1">>, <<"x">>, EmptyStr},
     comDate     : {<<"1","/","2","/","2","0">>, <<"x">>, EmptyStr}]

Numbered(cells) ==
    [k \in 1..Len(cells) |->
        [id |-> k, short |-> FALSE, uy |-> cells[k].uy,
         countryName |-> cells[k].countryName, broker |-> cells[k].broker,
         grossUWPrem |-> cells[k].grossUWPrem, comDate |-> cells[k].comDate]]

InitRows ==
    /\ dataset \in {Numbered(cells) :
                       cells \in UNION {[1..n -> LineCells] : n \in 0..MaxLines}}
    /\ view = NoView

ParsedBy(by, data) ==
    [kind |-> "parsed", rows |-> data, totals |-> << >>, by |-> by]

\* parseCSVData of the quarterly and yearly routes
ParseQuarterlyRows ==
    /\ view' = ParsedBy("quarterly", parseRows(dataset, 1, << >>))
    /\ UNCHANGED dataset
    /\ UNCHANGED <<resolverVars, loadVars, pageVars, parseVars>>

\* parseCSVData of the data route
ParseDataRows ==
    /\ view' = ParsedBy("data", parseRows(dataset, 1, << >>))
    /\ UNCHANGED dataset
    /\ UNCHANGED <<resolverVars, loadVars, pageVars, parseVars>>

\* parseCSVData of the world-map route
ParseWorldMapRows ==
    /\ view' = ParsedBy("worldMap", worldMapRows(dataset, 1, << >>))
    /\ UNCHANGED dataset
    /\ UNCHANGED <<resolverVars, loadVars, pageVars, parseVars>>

NextRows == ParseQuarterlyRows \/ ParseDataRows \/ ParseWorldMapRows

\* ---- normalization of one text: lib/normalize.ts and normalizeData ----
\* A string or null
NoText == [def |-> FALSE, v |-> EmptyStr]

Some(s) == [def |-> TRUE, v |-> s]

\* s.replace(/\s+/g, " "): every run of white space becomes one space
RECURSIVE collapseSpaces(_)
collapseSpaces(s) ==
    IF s = EmptyStr THEN EmptyStr
    ELSE IF IsSpace(Head(s))
         THEN IF Tail(s) # EmptyStr /\ IsSpace(Head(Tail(s)))
              THEN collapseSpaces(Tail(s))
              ELSE <<" ">> \o collapseSpaces(Tail(s))
         ELSE <<Head(s)>> \o collapseSpaces(Tail(s))

\* norm of lib/normalize.ts
norm(v) ==
    IF ~v.def THEN NoText
    ELSE LET s == toLowerCase(collapseSpaces(trim(v.v)))
         IN  IF Len(s) > 0 THEN Some(s) ELSE NoText

\* The texts normalized: up to MaxTextLen characters, white space included
MaxTextLen == 4

Texts == UNION {[1..n -> {" ", "\t", "A", "a"}] : n \in 0..MaxTextLen}

InitNorm ==
    /\ cell \in Texts
    /\ parsed = NoParse

\* norm(cell)
NormalizeText ==
    /\ parsed = NoParse
    /\ parsed' = [by |-> "norm", value |-> norm(Some(cell))]
    /\ UNCHANGED cell
    /\ UNCHANGED <<resolverVars, loadVars, aggVars, pageVars>>

\* normalizeData([record]) for a record whose country and broker cells are
\* the text
NormalizeRecord ==
    /\ parsed = NoParse
    /\ parsed' = [by |-> "normalizeData",
                  value |-> normalizeData(<<[countryName |-> cell,
                                             broker |-> cell]>>)[1]]
    /\ UNCHANGED cell
    /\ UNCHANGED <<resolverVars, loadVars, aggVars, pageVars>>

NextNorm == NormalizeText \/ NormalizeRecord

\* ---- requests of every kind, one after another, over one record set ----
\* The country parameter of a data request: absent or one value
CountryParams == {[country |-> << >>], [country |-> << <<"k","w">> >>]}

\* The response has been sent: the next request starts from nothing but the
\* cached records
SendResponse ==
    /\ view # NoView
    /\ view' = NoView
    /\ UNCHANGED <<dataset, filters>>
    /\ UNCHANGED <<resolverVars, loadVars, parseVars>>

NextShared ==
    \/ NextViews
    \/ \E params \in CountryParams, limit \in Limits,
          draws \in UNION {Draws(n) : n \in 0..MaxRecs} :
           DataGET(params, limit, draws)
    \/ SendResponse

(***************************************************************************)
(* Specifications                                                          *)
(***************************************************************************)
Init == InitLoad /\ ResolverIdle /\ AggIdle /\ PageIdle /\ ParseIdle

Next == NextLoad

Spec == Init /\ [][Next]_vars

NextResolver == ResolveQuarterly \/ ResolveYearly

InitR == InitResolver /\ LoadIdle /\ AggIdle /\ PageIdle /\ ParseIdle

SpecResolver == InitR /\ [][NextResolver]_vars

InitA == InitAgg /\ ResolverIdle /\ LoadIdle /\ PageIdle /\ ParseIdle

SpecAgg == InitA /\ [][NextAgg]_vars

InitV == InitViews /\ ResolverIdle /\ LoadIdle /\ PageIdle /\ ParseIdle

SpecViews == InitV /\ [][NextViews]_vars

InitC == InitClients /\ ResolverIdle /\ LoadIdle /\ PageIdle /\ ParseIdle

SpecClients == InitC /\ [][NextClients]_vars

InitP == InitPage /\ ResolverIdle /\ LoadIdle /\ ParseIdle

SpecPage == InitP /\ [][NextPage]_vars

InitF == InitFilter /\ ResolverIdle /\ LoadIdle /\ ParseIdle

SpecFilter == InitF /\ [][NextFilter]_vars

InitN == InitParse /\ ResolverIdle /\ LoadIdle /\ AggIdle /\ PageIdle

SpecParse == InitN /\ [][NextParse]_vars

InitS == InitScenario /\ ResolverIdle /\ LoadIdle /\ PageIdle /\ ParseIdle

SpecScenario == InitS /\ [][NextViews]_vars

InitW == InitRows /\ ResolverIdle /\ LoadIdle /\ PageIdle /\ ParseIdle

SpecRows == InitW /\ [][NextRows]_vars

InitT == InitNorm /\ ResolverIdle /\ LoadIdle /\ AggIdle /\ PageIdle

SpecNorm == InitT /\ [][NextNorm]_vars

SpecShared == InitV /\ [][NextShared]_vars

(***************************************************************************)
(* Claims about the period resolver (checked under SpecResolver)           *)
(***************************************************************************)
InRange(y) == y >= 2019 /\ y <= 2021

\* The year a record's underwriting-year label parses to, 0 when it is not
\* an integer within [2019, 2021]
UYYear(r) ==
    LET p == parseInt(r.uy)
    IN  IF ~p.nan /\ InRange(p.v) THEN p.v ELSE 0

\* The inception-quarter field names a quarter directly (Q1..Q4 in any case)
QuarterFieldIsQ(r) == IsQ14(toUpperCase(trim(r.inceptionQuarter)))

\* C1 as stated: the year is the inception year when present and in range,
\* otherwise (absent OR out of range) the underwriting year when in range,
\* otherwise resolution fails.
C1ClaimedYear(r) ==
    IF r.inceptionYear.def /\ InRange(r.inceptionYear.v) THEN r.inceptionYear.v
    ELSE UYYear(r)

C1_Original ==
    /\ rdone.y => yres = C1ClaimedYear(rec)
    /\ rdone.q =>
          /\ ~qres.isNull => qres.year = C1ClaimedYear(rec)
          /\ C1ClaimedYear(rec) = 0 => qres.isNull
          /\ (C1ClaimedYear(rec) # 0 /\ QuarterFieldIsQ(rec)) => ~qres.isNull

\* C1 as amended: the underwriting year is consulted only when the inception
\* year is absent (undefined or 0); an inception year that is present but
\* outside [2019, 2021] makes the resolution fail.
C1AmendedYear(r) ==
    IF r.inceptionYear.def /\ r.inceptionYear.v # 0
    THEN IF InRange(r.inceptionYear.v) THEN r.inceptionYear.v ELSE 0
    ELSE UYYear(r)

\* C1 (amended): in both routes the resolved year is the inception year when
\* it is present and within [2019, 2021]; the underwriting-year label when
\* the inception year is absent and the label parses to a year within
\* [2019, 2021]; and resolution fails in every other case.
C1_Year ==
    /\ rdone.y => yres = C1AmendedYear(rec)
    /\ rdone.q =>
          /\ ~qres.isNull => qres.year = C1AmendedYear(rec)
          /\ C1AmendedYear(rec) = 0 => qres.isNull
          /\ (C1AmendedYear(rec) # 0 /\ QuarterFieldIsQ(rec)) => ~qres.isNull

\* Both routes resolved a record without inception year from its label
\* "2021A", and another case: an out-of-range inception year failed.
C1_Witness ==
    /\ rdone.q /\ rdone.y
    /\ ~rec.inceptionYear.def
    /\ rec.uy = <<"2","0","2","1","A">>
    /\ ~qres.isNull /\ qres.year = 2021 /\ yres = 2021

\* The year of a record resolves (the quarter may still fail)
YearResolves(r) == C1AmendedYear(r) # 0

\* C2 as stated: a bare digit d in 1..4 in the inception-quarter field
\* resolves to Q{d}, whatever the month and the commitment date hold.
C2_Claim ==
    (rdone.q /\ YearResolves(rec) /\ IsBareDigit14(rec.inceptionQuarter))
        => (~qres.isNull /\ qres.quarter = <<"Q">> \o rec.inceptionQuarter)

\* The quarter a month name stands for: full or 3-letter name in any case,
\* EmptyStr when the text is no month name.
QuarterOfMonthName(m) ==
    LET u == toUpperCase(trim(m))
    IN  CASE u \in {JAN, FEB, MAR, <<"J","A","N","U","A","R","Y">>,
                    <<"F","E","B","R","U","A","R","Y">>, <<"M","A","R","C","H">>} -> Q1
          [] u \in {APR, MAY, JUN, <<"A","P","R","I","L">>, <<"J","U","N","E">>} -> Q2
          [] u \in {JUL, AUG, SEP, <<"J","U","L","Y">>, <<"A","U","G","U","S","T">>,
                    <<"S","E","P","T","E","M","B","E","R">>} -> Q3
          [] u \in {OCT, NOV, DEC, <<"O","C","T","O","B","E","R">>,
                    <<"N","O","V","E","M","B","E","R">>,
                    <<"D","E","C","E","M","B","E","R">>} -> Q4
          [] OTHER -> EmptyStr

\* C3 as stated: whenever the inception-quarter field is neither Q1..Q4 nor
\* a bare digit 1..4 (empty or any other text), the quarter is the one of the
\* inception month.
C3_Original ==
    (/\ rdone.q /\ YearResolves(rec)
     /\ ~QuarterFieldIsQ(rec)
     /\ ~IsBareDigit14(toUpperCase(trim(rec.inceptionQuarter)))
     /\ QuarterOfMonthName(rec.inceptionMonth) # EmptyStr)
        => (~qres.isNull /\ qres.quarter = QuarterOfMonthName(rec.inceptionMonth))

\* C3 (amended): when the inception-quarter field is empty after trimming,
\* the quarter is derived from the inception month: a full or 3-letter month
\* name in any case maps Jan/Feb/Mar to Q1, Apr/May/Jun to Q2, Jul/Aug/Sep
\* to Q3 and Oct/Nov/Dec to Q4.
C3_MonthQuarter ==
    (/\ rdone.q /\ YearResolves(rec)
     /\ trim(rec.inceptionQuarter) = EmptyStr
     /\ QuarterOfMonthName(rec.inceptionMonth) # EmptyStr)
        => (~qres.isNull /\ qres.quarter = QuarterOfMonthName(rec.inceptionMonth))

\* A record with an empty quarter field and the month "october" resolved
\* to Q4.
C3_Witness ==
    /\ rdone.q
    /\ rec.inceptionQuarter = EmptyStr
    /\ rec.inceptionMonth = <<"o","c","t","o","b","e","r">>
    /\ ~qres.isNull /\ qres.quarter = Q4

\* The quarter holding calendar month m
QuarterOfMonthNumber(m) ==
    CASE m \in 1..3 -> Q1 [] m \in 4..6 -> Q2 [] m \in 7..9 -> Q3 [] OTHER -> Q4

\* C4 as stated: with nothing from the quarter field and nothing from the
\* month, the quarter is that of the commitment date as the commitment-date
\* rules (parseComDateToJSDate) parse it, and null when they cannot.
C4_Claim ==
    (/\ rdone.q /\ YearResolves(rec)
     /\ trim(rec.inceptionQuarter) = EmptyStr
     /\ QuarterOfMonthName(rec.inceptionMonth) = EmptyStr)
        => LET d == parseComDateToJSDate(rec.comDate)
           IN  IF d.valid
               THEN ~qres.isNull /\ qres.quarter = QuarterOfMonthNumber(d.m)
               ELSE qres.isNull


(***************************************************************************)
(* Claims about the cached load (checked under Spec)                       *)
(***************************************************************************)
\* C5 as stated: in every route a load answers from the cache only when the
\* file's last-modified timestamp equals the timestamp stored with the
\* cache; whenever the two differ the file is reparsed.
C5_Claim ==
    resp.src = "cache" => resp.currentModified = resp.stamp

\* The complete record set of content version v, written without the
\* parser's loop: every full row whose uy is not blank, in file order.
CompleteRows(v) ==
    SelectSeq(FileContent(v),
              LAMBDA row : ~row.short /\ trim(row.uy) # EmptyStr)

CompleteSnapshot(r, v) ==
    IF r = "dimensions"
    THEN {trim(CompleteRows(v)[k].uy) : k \in 1..Len(CompleteRows(v))}
    ELSE [k \in 1..Len(CompleteRows(v)) |->
             [id |-> CompleteRows(v)[k].id, uy |-> trim(CompleteRows(v)[k].uy)]]

IsCompleteSnapshot(r, d) == \E v \in Versions : d = CompleteSnapshot(r, v)

\* C6: under every interleaving of requests, reloads and file changes, the
\* cache, when set, holds the complete record set of one version of the
\* file, and every request that answers from the cache or from its own parse
\* answers with the complete record set of one version, never a partial one.
C6_Snapshot ==
    /\ csvDataCache.set => IsCompleteSnapshot(route, csvDataCache.val)
    /\ resp.src \in {"cache", "parsed"} => IsCompleteSnapshot(route, resp.data)

\* A request is answered from the cache with the complete old record set
\* while another request has read the changed file and not yet stored it.
C6_Witness ==
    /\ resp.src = "cache"
    /\ resp.data = CompleteSnapshot(route, 1)
    /\ \E j \in Requests :
          /\ req[j].pc = "parse"
          /\ req[j].csvContent = FileContent(2)

\* C7 as stated: with no change to the file in between, the file is read
\* (and so parsed) at most once, overlapping requests included.
C7_Claim == ~hist.reread

\* C8 as stated: a request whose load met a missing or unreadable file
\* answers with an error.
C8_Claim ==
    resp.ioFailed => resp.status = "error"

(***************************************************************************)
(* Claims about the aggregation engine (checked under SpecAgg)             *)
(***************************************************************************)
\* The buckets of the current view, with the fields the views share:
\* premium, incurred claims, acquisition cost, and the ratios shown.
BucketOf(kind, b) ==
    CASE kind = "quarterly" ->
            [premium |-> b.premium, incurred |-> b.incurredClaims,
             acquisition |-> b.acquisition,
             ratios |-> {b.lossRatioPct, b.acquisitionPct, b.combinedRatioPct},
             combined |-> b.combinedRatioPct]
      [] kind = "kpi" ->
            [premium |-> b.premium, incurred |-> b.incurredClaims,
             acquisition |-> b.expense,
             ratios |-> {b.lossRatio, b.expenseRatio, b.combinedRatio},
             combined |-> b.combinedRatio]
      [] OTHER ->
            [premium |-> b.premium, incurred |-> b.incurredClaims,
             acquisition |-> b.acquisitionCosts,
             ratios |-> {b.lossRatio, b.combinedRatio},
             combined |-> b.combinedRatio]

Buckets ==
    {BucketOf(view.kind, view.rows[k]) : k \in 1..Len(view.rows)}
        \cup {BucketOf(view.kind, view.totals[k]) : k \in 1..Len(view.totals)}

\* C9 as stated: in every bucket of every view (period buckets, client
\* buckets, totals and grand totals) every ratio is a finite number, and is
\* 0 when the bucket's premium is 0.
C9_Claim ==
    \A b \in Buckets :
        /\ \A x \in b.ratios : IsFinite(x)
        /\ b.premium = 0 => \A x \in b.ratios : x = Number(0)

\* C10 as stated: the combined ratio of every bucket, totals and grand-total
\* rows included, is the one recomputed from the bucket's own sums:
\* (incurred claims + acquisition cost) / premium * 100 when premium > 0.
C10_Claim ==
    \A b \in Buckets :
        b.premium > 0 =>
            b.combined = Fin((b.incurred + b.acquisition) * 100, b.premium)

(***************************************************************************)
(* Claims about the period and country views (checked under SpecViews)     *)
(***************************************************************************)
\* The sum of a field over the first n rows
RECURSIVE SumUpTo(_, _, _)
SumUpTo(rows, field, n) ==
    IF n = 0 THEN 0 ELSE rows[n][field] + SumUpTo(rows, field, n - 1)

\* C11: in the quarterly, yearly and world-map results the premium, the
\* acquisition cost and the claims (paid, outstanding, incurred) of the
\* total equal the sums of those measures over all the group buckets.
C11_SumConsistency ==
    view.kind \in {"quarterly", "yearly", "countries"} =>
        \A field \in {"premium", "acquisition", "paidClaims", "osLoss",
                      "incurredClaims"} :
            view.totals[1][field] = SumUpTo(view.rows, field, Len(view.rows))

\* The yearly result of two records in different years: the total premium 3
\* is the sum of the buckets' premiums 1 and 2.
C11_Witness ==
    /\ view.kind = "yearly"
    /\ view.rows[1].premium = 1 /\ view.rows[2].premium = 2
    /\ view.totals[1].premium = 3
    /\ view.totals[1].acquisition = 2

\* The records of the dataset that the quarterly route resolves to quarter q
\* of the requested year (year 0: all years)
QuarterMatches(q, year) ==
    {k \in 1..Len(dataset) :
        LET t == normalizeTimeData(dataset[k], tzWest)
        IN  /\ ~t.isNull
            /\ t.quarter = QuarterOrder[q]
            /\ (year = 0 \/ t.year = year)}

YearMatches(y) ==
    {k \in 1..Len(dataset) : yearlyBucket(dataset[k]) = y}

IsZeroBucket(b) ==
    /\ b.policyCount = 0
    /\ b.premium = 0 /\ b.acquisition = 0 /\ b.paidClaims = 0
    /\ b.osLoss = 0 /\ b.incurredClaims = 0 /\ b.technicalResult = 0

\* C12: the quarterly result always has the four buckets Q1..Q4 and the
\* yearly result the three buckets 2019..2021, in order; a period that no
\* record of the dataset falls in is present with policyCount 0 and every
\* monetary field 0.
C12_PeriodGrid ==
    /\ view.kind = "quarterly" =>
          /\ Len(view.rows) = 4
          /\ \A q \in 1..4 :
                /\ view.rows[q].quarter = q
                /\ QuarterMatches(q, view.year) = {} => IsZeroBucket(view.rows[q])
    /\ view.kind = "yearly" =>
          /\ Len(view.rows) = 3
          /\ \A y \in 1..3 :
                /\ view.rows[y].quarter = YearOrder[y]
                /\ YearMatches(YearOrder[y]) = {} => IsZeroBucket(view.rows[y])

\* A quarterly request for 2020 over two records, one of them of 2019: Q1
\* holds the 2020 record and Q2, Q3 and Q4 are present and empty.
C12_Witness ==
    /\ view.kind = "quarterly" /\ view.year = 2020
    /\ Len(dataset) = 2
    /\ Len(view.rows) = 4
    /\ view.rows[1].policyCount = 1
    /\ IsZeroBucket(view.rows[2]) /\ IsZeroBucket(view.rows[3])
    /\ IsZeroBucket(view.rows[4])

\* ---------------------------------------------------------------------------
\* Claims about the resolved period's range (checked under SpecResolver)
\* ---------------------------------------------------------------------------

\* C18: for any input record, every non-null result of the period resolver
\* has a year in {2019, 2020, 2021} and a quarter in {Q1, Q2, Q3, Q4}.
C18_ResolvedRange ==
    (rdone.q /\ ~qres.isNull) =>
        /\ qres.year \in {2019, 2020, 2021}
        /\ qres.quarter \in {Q1, Q2, Q3, Q4}

\* A record whose inception quarter is written "q3" resolves to Q3 of 2020.
C18_Witness ==
    /\ rdone.q
    /\ rec.inceptionQuarter = <<"q","3">>
    /\ rec.inceptionMonth = EmptyStr
    /\ qres = Period(2020, Q3)

\* ---------------------------------------------------------------------------
\* Claims about the derivation rule of a bucket (checked under SpecAgg)
\* ---------------------------------------------------------------------------

\* The derivation rule on one bucket of a view of the given kind. A client
\* bucket stores no acquisition percentage; it is taken as the rule defines
\* it, premium > 0 ? acquisition / premium * 100 : 0.
DerivationRule(kind, b) ==
    CASE kind = "quarterly" ->
            /\ b.incurredClaims = b.paidClaims + b.osLoss
            /\ b.technicalResult = b.premium - b.incurredClaims - b.acquisition
            /\ b.combinedRatioPct = Plus(b.lossRatioPct, b.acquisitionPct)
      [] kind = "kpi" ->
            /\ b.incurredClaims = b.paidClaims + b.outstandingClaims
            /\ b.combinedRatio = Plus(b.lossRatio, b.expenseRatio)
      [] OTHER ->
            /\ b.technicalResult =
                   b.premium - b.incurredClaims - b.acquisitionCosts
            /\ b.combinedRatio =
                   Plus(b.lossRatio, GuardedPct(b.acquisitionCosts, b.premium))

\* C19 as stated: every bucket, the totals and the grand total included,
\* satisfies incurredClaims = paidClaims + osLoss, technicalResult =
\* premium - incurredClaims - acquisition and combinedRatioPct =
\* lossRatioPct + acquisitionPct.
C19_Claim ==
    /\ \A k \in 1..Len(view.rows) : DerivationRule(view.kind, view.rows[k])
    /\ \A k \in 1..Len(view.totals) : DerivationRule(view.kind, view.totals[k])

\* The part of C19 that the code keeps: the rule on every bucket that is not
\* a totals row of the client overview.
C19_GroupBuckets ==
    /\ \A k \in 1..Len(view.rows) : DerivationRule(view.kind, view.rows[k])
    /\ view.kind # "clients" =>
          \A k \in 1..Len(view.totals) :
              DerivationRule(view.kind, view.totals[k])

\* ---------------------------------------------------------------------------
\* Claims about the client overview (checked under SpecClients)
\* ---------------------------------------------------------------------------

\* The premium of all the records that belong to a client group
AllGroupsPremium ==
    SumField(SelectSeq(dataset, LAMBDA r : trim(r.broker) # EmptyStr),
             "grossUWPrem")

\* C16: in the client overview the grand total is computed over all the
\* client groups, not only the top maxClients displayed, and each displayed
\* client's percentage of total is its premium over the premium of all groups.
C16_GrandTotal ==
    (view.kind = "clients" /\ view.totals # << >>) =>
        /\ view.totals[2].premium = AllGroupsPremium
        /\ \A k \in 1..Len(view.rows) :
              view.rows[k].percentageOfTotal =
                  GuardedPct(view.rows[k].premium, AllGroupsPremium)

\* Four brokers of premium 1 each under a cap of three: three clients are
\* displayed with 25% each, their total is 3 and the grand total is 4.
C16_Witness ==
    /\ view.kind = "clients"
    /\ Len(dataset) = 4 /\ Len(view.rows) = 3
    /\ view.totals[1].premium = 3 /\ view.totals[2].premium = 4
    /\ \A k \in 1..3 : view.rows[k].percentageOfTotal = Number(25)

\* key(v) = norm(v).toLowerCase(): the case-insensitive key of a label
GroupKey(v) == toLowerCase(trim(v))

\* The first record of the dataset whose broker has the given key
FirstWithKey(k) ==
    dataset[CHOOSE i \in 1..Len(dataset) :
                /\ GroupKey(dataset[i].broker) = k
                /\ \A j \in 1..(i - 1) : GroupKey(dataset[j].broker) # k]

\* C17 as stated: grouping is case-insensitive, so no two buckets of the
\* client overview have labels that differ only in letter case, and each
\* bucket's label is the trimmed value of the first record of its group.
C17_Claim ==
    view.kind = "clients" =>
        /\ \A i, j \in 1..Len(view.rows) :
              i # j => GroupKey(view.rows[i].name) # GroupKey(view.rows[j].name)
        /\ \A i \in 1..Len(view.rows) :
              view.rows[i].name =
                  trim(FirstWithKey(GroupKey(view.rows[i].name)).broker)

\* ---------------------------------------------------------------------------
\* Claims about filtering (checked under SpecFilter and SpecPage)
\* ---------------------------------------------------------------------------

\* The loaded record's value in a facet
FacetValue(record, facet) ==
    IF facet = "country" THEN record.countryName ELSE record.broker

\* The record matches at least one selected value of every facet among
\* `facets` that has a selection
PassesFilters(record, facets) ==
    \A facet \in facets :
        \/ Len(filters[facet]) = 0
        \/ \E k \in 1..Len(filters[facet]) :
              GroupKey(filters[facet][k]) = GroupKey(FacetValue(record, facet))

\* C13 as stated: a record passes the filters exactly when, for every facet
\* that has at least one selected value, it matches at least one of that
\* facet's selected values; a facet with no selection imposes no constraint.
\* (The data route has no broker facet: it is held to the country facet.)
C13_Claim ==
    /\ view.kind = "filteredData" =>
          view.rows = normalizeData(SelectSeq(dataset, LAMBDA r :
                          PassesFilters(r, {"country", "broker"})))
    /\ view.kind = "filterRecords" =>
          view.rows = SelectSeq(dataset, LAMBDA r :
                          PassesFilters(r, {"country", "broker"}))
    /\ view.kind = "filterData" =>
          view.rows = SelectSeq(dataset, LAMBDA r :
                          PassesFilters(r, {"country"}))

\* The part of C13 that the code keeps: the page's filteredData and the
\* library's filterRecords.
C13_PageAndLibrary ==
    /\ view.kind = "filteredData" =>
          view.rows = normalizeData(SelectSeq(dataset, LAMBDA r :
                          PassesFilters(r, {"country", "broker"})))
    /\ view.kind = "filterRecords" =>
          view.rows = SelectSeq(dataset, LAMBDA r :
                          PassesFilters(r, {"country", "broker"}))

\* The number of records the filter that produced the view returns for
\* another filter state
CountWith(selected) ==
    IF view.kind = "filteredData" THEN Len(PageView(dataset, selected).rows)
    ELSE Len(filterRecords(dataset, [countryName |-> selected.country,
                                     broker |-> selected.broker]))

\* The filter state with one more selected value in a facet
WithAdded(facet, v) == [filters EXCEPT ![facet] = Append(@, v)]

FacetValues(facet) ==
    IF facet = "country" THEN { <<"K","W">>, <<"k","w">>, <<"O","M">> }
    ELSE { <<"A">>, <<"B">> }

\* C14 as stated: for any current selections, adding one more selected value
\* to any facet never increases the number of matching records.
C14_Original ==
    view.kind \in {"filteredData", "filterRecords"} =>
        \A facet \in {"country", "broker"} : \A v \in FacetValues(facet) :
            CountWith(WithAdded(facet, v)) <= Len(view.rows)

\* C14, amended: adding a selected value to a facet that has no selection
\* never increases the number of matching records, and adding one to a facet
\* that already has a selection never decreases it.
C14_Monotone ==
    view.kind \in {"filteredData", "filterRecords"} =>
        \A facet \in {"country", "broker"} : \A v \in FacetValues(facet) :
            /\ Len(filters[facet]) = 0 =>
                  CountWith(WithAdded(facet, v)) <= Len(view.rows)
            /\ Len(filters[facet]) > 0 =>
                  CountWith(WithAdded(facet, v)) >= Len(view.rows)

\* Country KW selected over a KW and an OM record: one record matches, and
\* with OM added to the country facet both do.
C14_Witness ==
    /\ view.kind = "filteredData"
    /\ filters = [country |-> << <<"K","W">> >>, broker |-> << >>]
    /\ Len(dataset) = 2 /\ Len(view.rows) = 1
    /\ CountWith(WithAdded("country", <<"O","M">>)) = 2

\* C15: after any change of selections each facet's option list is the
\* distinct values of the records that currently pass the filters, and
\* selecting any value a selector offers yields a non-empty filtered result.
C15_OfferedNonEmpty ==
    view.kind = "page" =>
        \A facet \in {"country", "broker"} :
            /\ {view.options[facet][k] : k \in 1..Len(view.options[facet])}
                  = {view.rows[i][IF facet = "country" THEN "countryName"
                                  ELSE "broker"] :
                        i \in 1..Len(view.rows)} \ {EmptyStr}
            /\ \A k \in 1..Len(view.options[facet]) :
                  PageView(dataset,
                      [filters EXCEPT ![facet] = <<view.options[facet][k]>>]
                  ).rows # << >>

\* Country KW selected over a KW record of broker A and an OM record of
\* broker B: the broker selector offers A only.
C15_Witness ==
    /\ view.kind = "page"
    /\ filters.country = << <<"K","W">> >>
    /\ Len(dataset) = 2
    /\ dataset[2].countryName = <<"O","M">> /\ dataset[2].broker = <<"B">>
    /\ Len(view.rows) = 1
    /\ view.options.broker = << <<"A">> >>

\* ---------------------------------------------------------------------------
\* Claims about numeric cells (checked under SpecParse)
\* ---------------------------------------------------------------------------

\* A cell with no digit in it, the literals Infinity and -Infinity aside:
\* no parser can read a number from it
Unparsable ==
    /\ \A i \in 1..Len(cell) : ~IsDigit(cell[i])
    /\ Len(cell) < 8

\* C20 as stated: for any input cell the stored financial field is a
\* non-negative finite number, and is 0 when the cell is unparsable.
C20_Claim ==
    parsed.by # "none" =>
        /\ parsed.value.k = "fin"
        /\ parsed.value.n >= 0
        /\ Unparsable => parsed.value = Number(0)

\* The part of C20 that the code keeps: the stored field is never NaN, and
\* is 0 when the cell is unparsable.
C20_NeverNaN ==
    parsed.by # "none" =>
        /\ parsed.value.k # "nan"
        /\ Unparsable => parsed.value = Number(0)

\* ---------------------------------------------------------------------------
\* Claims relating the quarterly and the yearly view (checked under SpecViews)
\* ---------------------------------------------------------------------------

\* The position of a year in the yearly view's rows
YearIndex(year) == CHOOSE y \in 1..3 : YearOrder[y] = year

\* C30: for any dataset and each year Y in 2019..2021, every record counted
\* in the quarterly view for Y is also counted in the yearly view's bucket
\* for Y, so the quarterly grand total's policyCount for Y never exceeds the
\* yearly bucket's policyCount for Y.
C30_QuarterlyWithinYearly ==
    (view.kind = "quarterly" /\ view.year \in {2019, 2020, 2021}) =>
        /\ \A q \in 1..4 : QuarterMatches(q, view.year) \subseteq YearMatches(view.year)
        /\ view.totals[1].policyCount
               <= YearlyView(dataset).rows[YearIndex(view.year)].policyCount

\* Two records of 2020, one of them without a resolvable quarter: the
\* quarterly view for 2020 counts one policy, the yearly bucket two.
C30_Witness ==
    /\ view.kind = "quarterly" /\ view.year = 2020
    /\ Len(dataset) = 2
    /\ view.totals[1].policyCount = 1
    /\ YearlyView(dataset).rows[2].policyCount = 2

\* ---------------------------------------------------------------------------
\* Claims about numeric commitment dates (checked under SpecResolver)
\* ---------------------------------------------------------------------------

\* The record carries a numeric a/b/y commitment date whose second number
\* can be a month
IsDayFirstDate(c) == c.fmt = "slash" /\ c.p2 \in 1..12

\* The commitment date alone decides the record's quarter
ComDateDecides(r) ==
    /\ YearResolves(r)
    /\ trim(r.inceptionQuarter) = EmptyStr
    /\ r.inceptionMonth = EmptyStr

\* C25 as stated: a numeric D/M/Y commitment date is read day-first, the
\* second number being the month, by the commitment-date parser and by the
\* period resolver that derives the quarter from the date.
C25_Claim ==
    IsDayFirstDate(rec.comDate) =>
        /\ parseComDateToJSDate(rec.comDate) = MkDate(rec.comDate.y, rec.comDate.p2)
        /\ (rdone.q /\ ComDateDecides(rec)) =>
              /\ ~qres.isNull
              /\ qres.quarter = QuarterOfMonthNumber(rec.comDate.p2)

\* The part of C25 that the code keeps: the commitment-date parser of the
\* library reads the date day-first.
C25_Library ==
    IsDayFirstDate(rec.comDate) =>
        parseComDateToJSDate(rec.comDate) = MkDate(rec.comDate.y, rec.comDate.p2)

\* ---------------------------------------------------------------------------
\* Claims about the three-record scenario (checked under SpecScenario)
\* ---------------------------------------------------------------------------

\* A non-negative ratio rounded to two decimals
Round2(x) == Fin((2 * 100 * x.n + x.d) \div (2 * x.d), 100)

\* The dataset holds exactly the three records of the scenario, in any order
IsScenario ==
    /\ Len(dataset) = 3
    /\ \A k \in 1..3 : \E i \in 1..3 : dataset[i] = ScenarioRecords[k]

\* premium, incurred claims and loss ratio (to two decimals) of a bucket
Shows(b, premium, incurred, lossRatioPct) ==
    /\ b.premium = premium
    /\ b.incurredClaims = incurred
    /\ Round2(b.lossRatioPct) = lossRatioPct

\* C24: the three records of the scenario aggregated by quarter for 2020
\* give Q1 {premium 1000, incurred 150, loss ratio 15}, Q2 {500, 600, 120},
\* Q3 {0, 10, 0}, Q4 all zero, and the grand total {1500, 760, 50.67}.
C24_Scenario ==
    (view.kind = "quarterly" /\ view.year = 2020 /\ IsScenario) =>
        /\ Shows(view.rows[1], 1000, 150, Number(15))
        /\ view.rows[1].lossRatioPct = Number(15)
        /\ Shows(view.rows[2], 500, 600, Number(120))
        /\ view.rows[2].lossRatioPct = Number(120)
        /\ Shows(view.rows[3], 0, 10, Number(0))
        /\ view.rows[3].lossRatioPct = Number(0)
        /\ IsZeroBucket(view.rows[4])
        /\ view.rows[4].lossRatioPct = Number(0)
        /\ Shows(view.totals[1], 1500, 760, Fin(5067, 100))

\* The quarterly view for 2020 of the three records in the order of the
\* scenario: one policy in each of Q1, Q2 and Q3.
C24_Witness ==
    /\ view.kind = "quarterly" /\ view.year = 2020
    /\ dataset = ScenarioRecords
    /\ \A q \in 1..3 : view.rows[q].policyCount = 1
    /\ view.totals[1].lossRatioPct = Fin(152, 3)

\* C29: a data request with forceReload=true never answers from a cache
\* entry: the records it returns were read and parsed by that same request.
C29_ForcedNeverFromCache ==
    (route = "data" /\ resp.forced /\ resp.status = "ok") => resp.src # "cache"

\* C28: whenever the cache is set, a timestamp is stored beside it, and the
\* records in it were parsed from content at least as recent as the file
\* version that timestamp was read from: the content is that version's or
\* one written after it, whatever loads and writes are interleaved.
C28_CacheAsRecentAsStamp ==
    csvDataCache.set =>
        /\ lastModified \in Mtimes
        /\ hist.stampGen <= hist.contentGen

\* The file was written between a load's stat and its readFile, and a later
\* write followed: the cache holds content newer than its timestamp's version.
C28_Witness ==
    /\ csvDataCache.set
    /\ hist.stampGen < hist.contentGen
    /\ hist.contentGen < hist.gen
    /\ \E i \in Requests : req[i].pc = "parse"

HasShortRow(v) == \E k \in 1..NumRows(v) : FileContent(v)[k].short

\* C26: a row with fewer cells than the header is skipped without an error
\* and without ending the load: the request that parsed the file answers
\* normally with exactly the records of the other rows, the rows after the
\* short one included.
C26_ShortRowSkipped ==
    (route \in {"quarterly", "data"} /\ resp.src = "parsed") =>
        /\ resp.status = "ok"
        /\ ~resp.ioFailed
        /\ IsCompleteSnapshot(route, resp.data)

C26_Witness ==
    /\ route = "data"
    /\ resp.src = "parsed"
    /\ \E v \in Versions :
          /\ HasShortRow(v)
          /\ resp.data = CompleteSnapshot(route, v)
          /\ \E k \in 1..(NumRows(v) - 1), n \in 1..Len(resp.data) :
                FileContent(v)[k].short /\ resp.data[n].id = <<v, k + 1>>

\* Line k of the parsed text has no record in the result
IsDropped(k) == \A n \in 1..Len(view.rows) : view.rows[n].id # k

OnlyEmptyUYDrops ==
    \A k \in 1..Len(dataset) :
        IsDropped(k) <=> (trim(dataset[k].uy) = EmptyStr)

\* C21: in every route a record is dropped from the parsed set exactly when
\* its underwriting-year label is empty after trimming; an empty or
\* malformed country, broker, number or date never drops it.
C21_OnlyEmptyUYDrops == view.kind = "parsed" => OnlyEmptyUYDrops

\* The rule as the quarterly, yearly and data parsers keep it
C21_ApiParsers ==
    (view.kind = "parsed" /\ view.by \in {"quarterly", "data"}) =>
        OnlyEmptyUYDrops

\* The display fields of a normalized row, as a record to normalize again
DisplayFields(row) == [countryName |-> row.countryName, broker |-> row.broker]

C22_StableOrder ==
    (/\ view.kind = "data"
     /\ view.previous.def
     /\ view.previous.params = view.params
     /\ view.previous.limit = view.limit) =>
        view.rows = view.previous.rows

\* What the two answers do share: the match count before the cap, and
\* answers of the same length
C22_SameTotal ==
    (/\ view.kind = "data"
     /\ view.previous.def
     /\ view.previous.params = view.params
     /\ view.previous.limit = view.limit) =>
        /\ Len(view.rows) = Len(view.previous.rows)
        /\ view.total = Len(filterData(dataset, view.params))

\* C23: no request modifies the cached record set: whatever data, quarterly,
\* yearly and world-map requests follow one another, every step leaves the
\* cached array and the records in it as they were.
C23_CacheNeverMutated == [][dataset' = dataset]_vars

\* Two data requests over two records were answered in different orders
C23_Witness ==
    /\ view.kind = "data"
    /\ view.previous.def
    /\ Len(dataset) = 2
    /\ Len(view.rows) = 2
    /\ view.rows # dataset
    /\ view.previous.rows = dataset

=============================================================================
